---- MODULE Spec2Model ----
(***************************************************************************)
(* Opencode TTS plugin: the local worker pool (src/local/pool.ts), the     *)
(* local playback orchestrator (src/local/speak.ts), the audio sink        *)
(* (src/local/audio.ts) and the speakText / engine glue around them.       *)
(***************************************************************************)
EXTENDS Integers, Sequences, FiniteSets, TLC

\* ---------------------------------------------------------------- bounds
NumWorkers == 2
MaxTasks == 4
MaxPools == 1
MaxCalls == 3
MaxPooledCalls == 2
MaxChunks == 2
MaxToggles == 1
MaxRouterCalls == 2
MaxInitPools == 2
MaxCancels == 2

Workers == 1..NumWorkers
Pools == 1..MaxInitPools
TaskIds == 0..(MaxTasks - 1)
NoTask == -1

Calls == 1..MaxCalls

VARIABLES
  pools,       \* one record per createWorkerPool() call: the closure's state
  npools,      \* number of pools created so far
  disk,        \* temporary audio files present on disk
  local,       \* module state of local/speak.ts
  audio,       \* module state of local/audio.ts and the player subprocesses
  config,      \* the shared, mutable TtsConfig object
  calls,       \* one record per speakText() call and the utterance it speaks
  lastSpoken,  \* lastSpokenMessageID of the plugin shell (0 = null)
  applyPc,     \* position of a running "/tts off" command handler

  http,        \* module state of a remote engine (engine-http.ts)
  toggles,     \* number of "/tts" commands handled so far
  txt,         \* a call of a function of text.ts: its arguments and its result
  shell,       \* the plugin shell: its event handler, or a "/tts profile" command
  merge,       \* a mergeConfig call: its arguments and its result
  reader       \* startReader of one worker: the stream, state.buffer, the lines

\* The state of the parts that are looked at on their own.
aux == <<txt, shell, merge, reader>>
orchNoTxt == <<local, audio, config, calls, lastSpoken, applyPc, http, toggles>>
orch == <<local, audio, config, calls, lastSpoken, applyPc, http, toggles, aux>>
vars == <<pools, npools, disk, local, audio, config, calls, lastSpoken, applyPc,
          http, toggles, aux>>

\* ------------------------------------------------------------ pool state
\* ProcessState of pool.ts (busy / ready / failed / task); the streams and
\* the subprocess are kept next to it in stdin, stdout and proc.
ProcessState == [busy |-> FALSE, ready |-> FALSE, failed |-> FALSE, task |-> NoTask]

\* The closure of createWorkerPool right after the spawn loop.
createWorkerPool ==
  [ tasks         |-> <<>>,
    states        |-> [w \in Workers |-> ProcessState],
    nextId        |-> 0,
    readyResolved |-> FALSE,
    ready         |-> "pending",
    promise       |-> [t \in TaskIds |-> "none"],
    calls         |-> [t \in TaskIds |-> 0],
    stdin         |-> [w \in Workers |-> <<>>],
    stdout        |-> [w \in Workers |-> <<>>],
    proc          |-> [w \in Workers |-> "loading"],
    shut          |-> FALSE ]

\* A pool slot no createWorkerPool() call has filled yet.
Unborn == [createWorkerPool EXCEPT !.proc = [w \in Workers |-> "none"]]

\* task.resolve / task.reject: a promise settles once, later calls are no-ops.
Settle(ps, t, how) ==
  [ps EXCEPT !.promise[t] = IF @ = "pending" THEN how ELSE @,
             !.calls[t] = IF @ < 2 THEN @ + 1 ELSE @]

\* resolveReady / rejectReady on the pool's ready promise.
SettleReady(ps, how) ==
  [ps EXCEPT !.ready = IF @ = "pending" THEN how ELSE @]

\* assign with the tasks.shift() lost: the head is dispatched but stays queued.
RECURSIVE assignKeepsQueue(_, _)
assignKeepsQueue(ps, w) ==
  IF w > NumWorkers THEN ps
  ELSE LET state == ps.states[w] IN
    IF state.failed \/ ~state.ready \/ state.busy THEN assignKeepsQueue(ps, w + 1)
    ELSE IF Len(ps.tasks) = 0 THEN ps
    ELSE LET task == Head(ps.tasks) IN
      assignKeepsQueue([ps EXCEPT !.states[w].busy = TRUE,
                                  !.states[w].task = task,
                                  !.stdin[w] = IF ps.proc[w] \in {"loading", "up"}
                                               THEN Append(@, task) ELSE @],
                       w + 1)

RECURSIVE assignFrom(_, _)
assignFrom(ps, w) ==
  IF w > NumWorkers THEN ps
  ELSE LET state == ps.states[w] IN
    IF state.failed THEN assignFrom(ps, w + 1)
    ELSE IF ~state.ready THEN assignFrom(ps, w + 1)
    ELSE IF state.busy THEN assignFrom(ps, w + 1)
    ELSE IF Len(ps.tasks) = 0 THEN ps
    ELSE LET task == Head(ps.tasks) IN
      assignFrom([ps EXCEPT !.tasks = Tail(@),
                            !.states[w].busy = TRUE,
                            !.states[w].task = task,
                            !.stdin[w] = IF ps.proc[w] \in {"loading", "up"}
                                         THEN Append(@, task) ELSE @],
                 w + 1)

\* assign that does not skip failed workers.
RECURSIVE assignToFailedFrom(_, _)
assignToFailedFrom(ps, w) ==
  IF w > NumWorkers THEN ps
  ELSE LET state == ps.states[w] IN
    IF ~state.ready \/ state.busy THEN assignToFailedFrom(ps, w + 1)
    ELSE IF Len(ps.tasks) = 0 THEN ps
    ELSE LET task == Head(ps.tasks) IN
      assignToFailedFrom([ps EXCEPT !.tasks = Tail(@),
                                    !.states[w].busy = TRUE,
                                    !.states[w].task = task,
                                    !.stdin[w] = IF ps.proc[w] \in {"loading", "up"}
                                                 THEN Append(@, task) ELSE @],
                         w + 1)

assignToFailed(ps) == assignToFailedFrom(ps, 1)

\* assign that does not skip busy workers: a worker can be sent a request
\* while it still works on an earlier one.
RECURSIVE assignToBusyFrom(_, _)
assignToBusyFrom(ps, w) ==
  IF w > NumWorkers THEN ps
  ELSE LET state == ps.states[w] IN
    IF state.failed \/ ~state.ready THEN assignToBusyFrom(ps, w + 1)
    ELSE IF Len(ps.tasks) = 0 THEN ps
    ELSE LET task == Head(ps.tasks) IN
      assignToBusyFrom([ps EXCEPT !.tasks = Tail(@),
                                  !.states[w].busy = TRUE,
                                  !.states[w].task = task,
                                  !.stdin[w] = IF ps.proc[w] \in {"loading", "up"}
                                               THEN Append(@, task) ELSE @],
                       w + 1)

assignToBusy(ps) == assignToBusyFrom(ps, 1)

assign(ps) == assignFrom(ps, 1)

\* handleReady that waits until every worker has reported ready.
handleReadyWhenAll(ps) ==
  IF ps.readyResolved \/ \E w \in Workers : ~ps.states[w].ready THEN ps
  ELSE SettleReady([ps EXCEPT !.readyResolved = TRUE], "resolved")

handleReady(ps) ==
  IF ps.readyResolved THEN ps
  ELSE SettleReady([ps EXCEPT !.readyResolved = TRUE], "resolved")

\* handleFailure that never rejects the ready promise.
handleFailureIgnored(ps) == ps

handleFailure(ps) ==
  IF ps.readyResolved THEN ps ELSE SettleReady(ps, "rejected")

RECURSIVE failQueue(_, _)
failQueue(ps, how) ==
  IF Len(ps.tasks) = 0 THEN ps
  ELSE failQueue(Settle([ps EXCEPT !.tasks = Tail(@)], Head(ps.tasks), how), how)

\* handleMessage that frees the worker without a new assignment pass.
handleMessageNoAssign(ps, w, message) ==
  IF message.type = "ready"
  THEN assign(handleReady([ps EXCEPT !.states[w].ready = TRUE]))
  ELSE LET task == ps.states[w].task
           p1 == [ps EXCEPT !.states[w].task = NoTask, !.states[w].busy = FALSE]
       IN IF task = NoTask THEN p1
          ELSE IF message.type = "result" THEN Settle(p1, task, "resolved")
          ELSE IF message.type = "error" THEN Settle(p1, task, "error")
          ELSE p1

\* handleMessage that drops the task of a reply and leaves the worker busy.
handleMessageKeepsBusy(ps, w, message) ==
  IF message.type = "ready"
  THEN assign(handleReady([ps EXCEPT !.states[w].ready = TRUE]))
  ELSE LET task == ps.states[w].task
           p1 == assign([ps EXCEPT !.states[w].task = NoTask])
       IN IF task = NoTask THEN p1
          ELSE IF message.type = "result" THEN Settle(p1, task, "resolved")
          ELSE IF message.type = "error" THEN Settle(p1, task, "error")
          ELSE p1

\* message: [type |-> "ready"] or [type |-> "result" / "error", id |-> t]
handleMessage(ps, w, message) ==
  IF message.type = "ready"
  THEN assign(handleReady([ps EXCEPT !.states[w].ready = TRUE]))
  ELSE LET task == ps.states[w].task
           p1 == assign([ps EXCEPT !.states[w].task = NoTask,
                                   !.states[w].busy = FALSE])
       IN IF task = NoTask THEN p1
          ELSE IF message.type = "result" THEN Settle(p1, task, "resolved")
          ELSE IF message.type = "error" THEN Settle(p1, task, "error")
          ELSE p1

\* The proc.exited.then callback of spawnProcess.
procExited(ps, w) ==
  LET p1 == handleFailure([ps EXCEPT !.states[w].failed = TRUE])
      p2 == IF p1.states[w].task # NoTask
            THEN Settle(p1, p1.states[w].task, "exited") ELSE p1
  IN failQueue(p2, "exited")

\* enqueue that puts the new task at the front of the queue.
enqueueAtFront(ps) ==
  LET id == ps.nextId IN
  assign([ps EXCEPT !.promise[id] = "pending",
                    !.nextId = @ + 1,
                    !.tasks = <<id>> \o @])

enqueue(ps) ==
  LET id == ps.nextId IN
  assign([ps EXCEPT !.promise[id] = "pending",
                    !.nextId = @ + 1,
                    !.tasks = Append(@, id)])

\* shutdown that kills the workers and leaves the queued tasks pending.
shutdownKeepsQueue(ps) ==
  [ps EXCEPT !.states = [w \in Workers |-> [ps.states[w] EXCEPT !.failed = TRUE]],
             !.proc = [w \in Workers |->
                         IF ps.proc[w] \in {"loading", "up"} THEN "dead" ELSE ps.proc[w]],
             !.shut = TRUE]

shutdown(ps) ==
  LET p1 == failQueue(ps, "shutdown") IN
  [p1 EXCEPT !.states = [w \in Workers |-> [p1.states[w] EXCEPT !.failed = TRUE]],
             !.proc = [w \in Workers |->
                         IF p1.proc[w] \in {"loading", "up"} THEN "dead" ELSE p1.proc[w]],
             !.shut = TRUE]

\* ------------------------------------------------- worker subprocess side
\* worker.ts: the model is loaded, the worker writes {type: "ready"}.
WorkerReady(p, w) ==
  /\ p <= npools
  /\ pools[p].proc[w] = "loading"
  /\ pools' = [pools EXCEPT ![p].proc[w] = "up",
                            ![p].stdout[w] = Append(@, [type |-> "ready", id |-> NoTask])]
  /\ UNCHANGED <<npools, disk, orch>>

\* handleGenerate without its catch: a failed generation sends nothing.
WorkerGenerateUncaught(p, w) ==
  /\ p <= npools
  /\ pools[p].proc[w] = "up"
  /\ Len(pools[p].stdin[w]) > 0
  /\ LET id == Head(pools[p].stdin[w]) IN
     \E ok \in BOOLEAN :
       /\ pools' = [pools EXCEPT ![p].stdin[w] = Tail(@),
                                 ![p].stdout[w] = IF ok
                                     THEN Append(@, [type |-> "result", id |-> id])
                                     ELSE @]
       /\ disk' = IF ok THEN disk \cup {<<p, id, 0>>} ELSE disk
  /\ UNCHANGED <<npools, orch>>

\* worker.ts handleGenerate / handleError: one reply per generate request;
\* a result has written its WAV file before the reply is sent.
WorkerGenerate(p, w) ==
  /\ p <= npools
  /\ pools[p].proc[w] = "up"
  /\ Len(pools[p].stdin[w]) > 0
  /\ LET id == Head(pools[p].stdin[w]) IN
     \E ok \in BOOLEAN :
       /\ pools' = [pools EXCEPT ![p].stdin[w] = Tail(@),
                                 ![p].stdout[w] = Append(@,
                                     [type |-> IF ok THEN "result" ELSE "error", id |-> id])]
       /\ disk' = IF ok THEN disk \cup {<<p, id, 0>>} ELSE disk
  /\ UNCHANGED <<npools, orch>>

\* The subprocess terminates on its own (crash, OOM, external kill).
WorkerCrash(p, w) ==
  /\ p <= npools
  /\ pools[p].proc[w] \in {"loading", "up"}
  /\ pools' = [pools EXCEPT ![p].proc[w] = "dead"]
  /\ UNCHANGED <<npools, disk, orch>>

\* ------------------------------------------------------ pool event loop
\* startReader: one complete line of the worker's stdout is handled.
ReadMessage(p, w) ==
  /\ p <= npools
  /\ Len(pools[p].stdout[w]) > 0
  /\ pools' = [pools EXCEPT ![p] =
        handleMessage([@ EXCEPT !.stdout[w] = Tail(@)], w, Head(pools[p].stdout[w]))]
  /\ UNCHANGED <<npools, disk, orch>>

\* proc.exited resolves: the exit callback runs once per subprocess.
ProcExited(p, w) ==
  /\ p <= npools
  /\ pools[p].proc[w] = "dead"
  /\ pools' = [pools EXCEPT ![p] = procExited([@ EXCEPT !.proc[w] = "reaped"], w)]
  /\ UNCHANGED <<npools, disk, orch>>

\* A caller of the pool enqueues one task. The pool's only caller, speakLocal,
\* enqueues on a pool whose ready promise has resolved and that it has not
\* shut down.
EnvEnqueue(p) ==
  /\ p <= npools
  /\ ~pools[p].shut
  /\ pools[p].ready = "resolved"
  /\ pools[p].nextId < MaxTasks
  /\ pools' = [pools EXCEPT ![p] = enqueue(@)]
  /\ UNCHANGED <<npools, disk, orch>>

\* The owner of the pool shuts it down.
EnvShutdown(p) ==
  /\ p <= npools
  /\ pools' = [pools EXCEPT ![p] = shutdown(@)]
  /\ UNCHANGED <<npools, disk, orch>>

\* ------------------------------------------------- orchestrator state
\* Length of the darwin player list of playAudio (ffplay, afplay).
NumPlayers == 2

NoProc == [cand |-> 0, st |-> "none"]

IdleCall ==
  [ pc |-> "idle", via |-> "none", mode |-> "none", token |-> 0, wait |-> 0,
    apool |-> 0, n |-> 0, i |-> 0, tasks |-> <<>>, files |-> {},
    failed |-> "no",   \* the error the loop threw, or "no"
    outcome |-> "none",
    played |-> <<>>,   \* history: the chunk index of every playAudio call
    sup |-> FALSE,     \* history: its token was stale when it left its loop
    synth |-> <<>>,    \* speakHttp: the state of synthesisPromises[k]
    fb |-> FALSE,      \* the engine's speak is in its catch branch
    msg |-> 0,         \* the messageID speakText was called with
    toasts |-> 0,      \* showToast calls made by speakText for this call
    thrown |-> FALSE,  \* an error left speakText
    off |-> FALSE ]    \* history: "/tts off" was handled while it was running

\* No splitTextIntoChunks call is being looked at.
NoText == [pc |-> "none", text |-> <<>>, max |-> 0, chunks |-> <<>>]

\* No event has reached the plugin, no mergeConfig call and no worker stream
\* is being looked at.
NoShell == [pc |-> "none"]
NoMerge == [pc |-> "none"]
NoReader == [pc |-> "none"]

InitBase(workers, enabled) ==
  /\ local = [ pool |-> 0, poolReady |-> FALSE, poolInit |-> 0,
               chain |-> [p \in Pools |-> "none"],
               localModel |-> FALSE, localInit |-> "null", cancelToken |-> 0 ]
  /\ audio = [currentProcess |-> 0, proc |-> [u \in Calls |-> NoProc]]
  /\ config = [ enabled |-> enabled, maxWorkers |-> workers, backend |-> "local",
                fallbackToLocal |-> FALSE ]
  /\ calls = [u \in Calls |-> IdleCall]
  /\ lastSpoken = 0
  /\ applyPc = "idle"
  /\ http = [ cancelToken |-> 0, serverChecked |-> FALSE, serverAvailable |-> FALSE,
              checking |-> FALSE ]
  /\ toggles = 0

InitOrch(workers, enabled) ==
  /\ InitBase(workers, enabled)
  /\ txt = NoText
  /\ shell = NoShell
  /\ merge = NoMerge
  /\ reader = NoReader

InitPool ==
  /\ npools = 1
  /\ pools = [p \in Pools |-> IF p = 1 THEN createWorkerPool ELSE Unborn]
  /\ disk = {}
  /\ InitOrch(NumWorkers, TRUE)

NextPool ==
  \/ \E p \in Pools : EnvEnqueue(p)
  \/ \E p \in Pools : EnvShutdown(p)
  \/ \E p \in Pools, w \in Workers : WorkerReady(p, w)
  \/ \E p \in Pools, w \in Workers : WorkerGenerate(p, w)
  \/ \E p \in Pools, w \in Workers : WorkerCrash(p, w)
  \/ \E p \in Pools, w \in Workers : ReadMessage(p, w)
  \/ \E p \in Pools, w \in Workers : ProcExited(p, w)

SpecPool == InitPool /\ [][NextPool]_vars

\* The workers keep running: a loaded worker announces itself, a worker that
\* was sent a request replies, and the event loop runs every callback whose
\* promise or stream is ready.
FairPool ==
  /\ \A p \in Pools, w \in Workers : WF_vars(WorkerReady(p, w))
  /\ \A p \in Pools, w \in Workers : WF_vars(WorkerGenerate(p, w))
  /\ \A p \in Pools, w \in Workers : WF_vars(ReadMessage(p, w))
  /\ \A p \in Pools, w \in Workers : WF_vars(ProcExited(p, w))

FairSpecPool == InitPool /\ [][NextPool]_vars /\ FairPool

\* ------------------------------------------------------------ pool claims
Holders(ps, t) == {w \in Workers : ps.states[w].task = t}
InQueue(ps, t) == \E i \in 1..Len(ps.tasks) : ps.tasks[i] = t
QueueCount(ps, t) == Cardinality({i \in 1..Len(ps.tasks) : ps.tasks[i] = t})

\* C2: when the exit callback of a worker that holds a task runs, the worker
\* is marked failed, exactly the held task is rejected with "worker process
\* exited", and the queue and every other task's promise are left as they were.
C2_ExitRejectsOnlyHeldTask ==
  [][\A p \in Pools, w \in Workers :
       (/\ pools[p].proc[w] = "dead"
        /\ pools'[p].proc[w] = "reaped"
        /\ pools[p].states[w].task # NoTask
        /\ pools[p].promise[pools[p].states[w].task] = "pending")
       => LET held == pools[p].states[w].task IN
          /\ pools'[p].states[w].failed
          /\ pools'[p].promise[held] = "exited"
          /\ pools'[p].tasks = pools[p].tasks
          /\ \A t \in TaskIds \ {held} : pools'[p].promise[t] = pools[p].promise[t]]_vars

\* C3: every task handed to enqueue is eventually resolved or rejected.
C3_EveryTaskSettles ==
  \A p \in Pools, t \in TaskIds :
    (pools[p].promise[t] = "pending") ~> (pools[p].promise[t] \notin {"none", "pending"})

\* C4: a task is never both queued and assigned, never queued twice and never
\* assigned to two workers; a task whose promise is pending is in exactly one
\* of these places.
C4_QueueXorOneWorker ==
  \A p \in Pools, t \in TaskIds :
    /\ QueueCount(pools[p], t) + Cardinality(Holders(pools[p], t)) <= 1
    /\ pools[p].promise[t] = "pending"
         => QueueCount(pools[p], t) + Cardinality(Holders(pools[p], t)) = 1

\* A task sits in the queue while both workers hold other tasks.
C4_Witness ==
  \E p \in Pools :
    /\ Len(pools[p].tasks) > 0
    /\ \A w \in Workers : pools[p].states[w].task # NoTask /\ pools[p].states[w].busy

\* C14: shutdown rejects every queued task with "pool shutdown" and no other
\* task, empties the queue, marks every worker failed and leaves no worker
\* process alive; a second shutdown changes nothing.
C14_ShutdownRejectsQueueOnce ==
  \A p \in Pools :
    p <= npools =>
      LET ps == pools[p]
          s == shutdown(ps)
      IN /\ s.tasks = <<>>
         /\ \A t \in TaskIds :
              IF InQueue(ps, t) THEN s.promise[t] = "shutdown"
              ELSE s.promise[t] = ps.promise[t]
         /\ \A w \in Workers : s.states[w].failed /\ s.proc[w] \notin {"loading", "up"}
         /\ shutdown(s) = s

\* The pool was shut down with a task in its queue and a task held by a
\* worker: the queued one is rejected by the shutdown.
C14_Witness ==
  \E p \in Pools :
    /\ pools[p].shut
    /\ \E t \in TaskIds : pools[p].promise[t] = "shutdown"
    /\ \E w \in Workers : pools[p].states[w].task # NoTask

\* A worker assign would dispatch to.
Eligible(ps, w) ==
  ~ps.states[w].failed /\ ps.states[w].ready /\ ~ps.states[w].busy

\* C15: the step in which the first worker reports ready resolves the pool's
\* pending ready promise whatever the other workers do, and a task never
\* waits in the queue while a ready, idle, healthy worker exists.
C15_ReadyOnFirstWorker ==
  [][\A p \in Pools :
       /\ (/\ pools[p].ready = "pending"
           /\ \E w \in Workers : ~pools[p].states[w].ready /\ pools'[p].states[w].ready)
            => pools'[p].ready = "resolved"
       /\ Len(pools'[p].tasks) > 0 => \A w \in Workers : ~Eligible(pools'[p], w)]_vars

\* The ready promise has resolved and a task is held by the ready worker
\* while the other worker is still loading its model.
C15_Witness ==
  \E p \in Pools :
    /\ pools[p].ready = "resolved"
    /\ \E w \in Workers : pools[p].proc[w] = "loading" /\ ~pools[p].states[w].ready
    /\ \E w \in Workers : pools[p].states[w].ready /\ pools[p].states[w].task # NoTask
                            /\ pools[p].promise[pools[p].states[w].task] = "pending"

\* C16: a worker's failed flag is never reset, and a worker that is given a
\* new task was not failed, has reported ready, and was idle or has just had
\* its reply handled in this very step.
C16_OnlyHealthyIdleWorkersDispatched ==
  [][\A p \in Pools, w \in Workers :
       LET s == pools[p].states[w]
           s1 == pools'[p].states[w]
           replied == Len(pools'[p].stdout[w]) < Len(pools[p].stdout[w])
       IN /\ (p <= npools /\ s.failed) => s1.failed
          /\ (s1.task # NoTask /\ s1.task # s.task)
               => /\ ~s.failed /\ ~s1.failed
                  /\ s1.ready /\ s1.busy
                  /\ s.busy => replied
                  /\ ~s.ready => replied]_vars

\* A task waits in the queue although a failed worker is ready and idle.
C16_Witness ==
  \E p \in Pools, w \in Workers :
    /\ pools[p].states[w].failed /\ pools[p].states[w].ready
    /\ ~pools[p].states[w].busy
    /\ Len(pools[p].tasks) > 0

\* C35: for every worker of every pool, busy is set exactly when the worker
\* has a task assigned.
C35_BusyIffTask ==
  \A p \in Pools, w \in Workers :
    pools[p].states[w].busy <=> pools[p].states[w].task # NoTask

\* One worker has exited while holding a task and still counts as busy with
\* it, while the other worker has had a reply handled and is idle again.
C35_Witness ==
  \E p \in Pools, w, v \in Workers :
    /\ pools[p].proc[w] = "reaped" /\ pools[p].states[w].failed
    /\ pools[p].states[w].busy /\ pools[p].states[w].task # NoTask
    /\ pools[p].promise[pools[p].states[w].task] = "exited"
    /\ ~pools[p].states[v].busy /\ pools[p].states[v].task = NoTask
    /\ \E t \in TaskIds : pools[p].promise[t] = "resolved"

\* C37: the pool calls resolve or reject of a task at most once in all.
C37_TaskSettledAtMostOnce ==
  \A p \in Pools, t \in TaskIds : pools[p].calls[t] <= 1

\* C39: a task's promise is resolved only in the step that handles a result
\* message with that task's id, whose file the worker has written, and it is
\* rejected with a worker's error only in the step that handles an error
\* message with that task's id.
C39_SettledByOwnMessage ==
  [][\A p \in Pools, t \in TaskIds :
       (pools[p].promise[t] = "pending" /\ pools'[p].promise[t] \in {"resolved", "error"})
         => \E w \in Workers :
              /\ pools[p].stdout[w] # <<>>
              /\ pools'[p].stdout[w] = Tail(pools[p].stdout[w])
              /\ Head(pools[p].stdout[w]).id = t
              /\ Head(pools[p].stdout[w]).type =
                   (IF pools'[p].promise[t] = "resolved" THEN "result" ELSE "error")
              /\ pools'[p].promise[t] = "resolved" => <<p, t, 0>> \in disk]_vars

\* One task was resolved by a result message and another one was rejected
\* by an error message, both handled from the same worker.
C39_Witness ==
  \E p \in Pools, w \in Workers, t, r \in TaskIds :
    /\ pools[p].promise[t] = "resolved" /\ pools[p].promise[r] = "error"
    /\ t < r
    /\ \E v \in Workers : v # w /\ pools[p].proc[v] = "loading"
    /\ pools[p].stdout[w] = <<>> /\ pools[p].states[w].task = NoTask

\* ================================================================ speak.ts
\* The module-level state an exported function of speak.ts / audio.ts /
\* pool.ts reads and writes, gathered so that calls compose.
World == [local |-> local, audio |-> audio, pools |-> pools, npools |-> npools,
          http |-> http]

cancelAudioPlayback(a) ==
  IF a.currentProcess = 0 THEN a
  ELSE [a EXCEPT !.proc[a.currentProcess].st = IF @ = "running" THEN "killed" ELSE @,
                 !.currentProcess = 0]

\* An interrupt that kills the player and leaves the token as it is.
interruptKeepsToken(W) == [W EXCEPT !.audio = cancelAudioPlayback(@)]

interruptLocalSpeak(W) ==
  [W EXCEPT !.local.cancelToken = @ + 1,
            !.audio = cancelAudioPlayback(@)]

cancelLocalSpeak(W) ==
  LET W1 == [W EXCEPT !.local.cancelToken = @ + 1,
                      !.audio = cancelAudioPlayback(@)]
  IN IF W1.local.pool # 0
     THEN [W1 EXCEPT !.pools[W1.local.pool] = shutdown(@),
                     !.local.pool = 0,
                     !.local.poolReady = FALSE,
                     !.local.poolInit = 0]
     ELSE W1

cancelHttpSpeak(W) ==
  [W EXCEPT !.http.cancelToken = @ + 1,
            !.audio = cancelAudioPlayback(@)]

isLocalReady(W) == W.local.localModel \/ W.local.poolReady

\* initLocalTts up to its return: the promise it returns is `wait`
\* (0: already true, -2: localInit, p > 0: the poolInit chain of pool p).
initLocalTts(W, cfg) ==
  IF cfg.maxWorkers <= 0
  THEN IF W.local.localModel THEN [W |-> W, wait |-> 0]
       ELSE IF W.local.localInit # "null" THEN [W |-> W, wait |-> -2]
       ELSE [W |-> [W EXCEPT !.local.localInit = "pending"], wait |-> -2]
  ELSE IF W.local.poolReady /\ W.local.pool # 0 THEN [W |-> W, wait |-> 0]
  ELSE IF W.local.poolInit # 0 THEN [W |-> W, wait |-> W.local.poolInit]
  ELSE LET p == W.npools + 1 IN
       [W |-> [W EXCEPT !.npools = p,
                        !.pools[p] = createWorkerPool,
                        !.local.pool = p,
                        !.local.poolInit = p,
                        !.local.chain[p] = "pending"],
        wait |-> p]

\* createWorkerPool can be modelled once more.
CanInit(W, cfg) ==
  \/ cfg.maxWorkers <= 0
  \/ W.local.poolReady /\ W.local.pool # 0
  \/ W.local.poolInit # 0
  \/ W.npools < MaxPools

\* engine: the backend registry's init / isReady / cancel / interrupt.
isReady(W, cfg) ==
  IF cfg.backend = "local" THEN isLocalReady(W)
  ELSE W.http.serverAvailable \/ (cfg.fallbackToLocal /\ isLocalReady(W))

cancelTts(W, cfg) ==
  IF cfg.backend = "local" THEN cancelLocalSpeak(W) ELSE cancelHttpSpeak(W)

interruptTts(W, cfg) ==
  IF cfg.backend = "local" THEN interruptLocalSpeak(W) ELSE cancelHttpSpeak(W)

\* The catch branch retrying with speakLocal whenever the backend is remote.
FallsBackAlways(W, cfg) == cfg.backend # "local"

\* engine: the condition of speak's catch branch to retry with speakLocal.
FallsBack(W, cfg) == cfg.fallbackToLocal /\ isLocalReady(W) /\ cfg.backend # "local"

Commit(W) ==
  /\ local' = W.local
  /\ audio' = W.audio
  /\ pools' = W.pools
  /\ npools' = W.npools
  /\ http' = W.http

\* The `!config.enabled || token !== cancelToken` checkpoint of speakLocal,
\* and the `token !== cancelToken` checkpoint of speakHttp.
Superseded(c, W, cfg) ==
  IF c.via = "local" THEN ~cfg.enabled \/ c.token # W.local.cancelToken
  ELSE c.token # W.http.cancelToken

\* The call's promise has settled; its locals are gone (apool and tasks are
\* kept to name the files its chunks were generated into).
Done(c, how) ==
  [IdleCall EXCEPT !.pc = "done", !.outcome = how, !.via = c.via, !.mode = c.mode,
                   !.apool = c.apool, !.tasks = c.tasks, !.synth = c.synth,
                   !.msg = c.msg]

\* speakText without its try / catch: the error of speak leaves speakText.
speakTextRethrows(c) == [c EXCEPT !.thrown = TRUE]

\* The catch block of speakText: speak has rejected, one toast is shown and
\* the error is swallowed (showToast is taken to resolve).
speakTextCatch(c) == [c EXCEPT !.toasts = @ + 1]

\* The call's token is no longer the current one of its engine.
Stale(c, W) ==
  IF c.via = "local" THEN c.token # W.local.cancelToken
  ELSE c.token # W.http.cancelToken

\* The loop is left, by break, by running out of chunks or by a throw.
ToCleanup(c, W, threw) ==
  [c EXCEPT !.pc = "cleanup", !.failed = threw, !.sup = Stale(c, W)]

\* The entry of speakLocal up to `await initLocalTts(config)`.
speakLocalStart(c, W, cfg, n) ==
  LET r == initLocalTts(W, cfg) IN
  [ W |-> r.W,
    c |-> [c EXCEPT !.pc = "init", !.via = "local", !.token = W.local.cancelToken,
                    !.wait = r.wait, !.n = n] ]

\* speakHttp up to the first `await synthesisPromises[i]`: every chunk's
\* synthesizeChunk request is sent, then playInOrder starts.
speakHttp(c, W, cfg, n) ==
  [c EXCEPT !.pc = "synth", !.via = "http", !.mode = "http",
            !.token = W.http.cancelToken, !.n = n, !.i = 1,
            !.synth = [k \in 1..n |-> "pending"]]

\* The head of the for loop of playDirect / playFromWorkers / playInOrder at
\* index i: leave the loop, break at the checkpoint, or await chunk i.
LoopHead(c, i, W, cfg) ==
  IF i > c.n THEN ToCleanup([c EXCEPT !.i = i], W, "no")
  ELSE IF Superseded(c, W, cfg) THEN ToCleanup([c EXCEPT !.i = i], W, "no")
  ELSE [c EXCEPT !.pc = IF c.mode = "direct" THEN "gen"
                        ELSE IF c.mode = "pool" THEN "task" ELSE "synth",
                 !.i = i]

\* The loop walking the tasks from the last to the first.
awaitedReversed(c) == c.tasks[c.n + 1 - c.i]

\* The task promise the loop awaits at index i.
awaited(c) == c.tasks[c.i]

\* runCommand up to `await proc.exited`; Bun.spawn throws when the executable
\* is missing, and runCommand then returns 1 without tracking a process.
runCommand(a, u, cand, spawned) ==
  IF spawned
  THEN [a EXCEPT !.proc[u] = [cand |-> cand, st |-> "running"], !.currentProcess = u]
  ELSE [a EXCEPT !.proc[u] = [cand |-> cand, st |-> "nospawn"]]

\* A chunks.map that enqueues the first chunk only.
enqueueFirst(ps, n) == IF n = 0 THEN ps ELSE enqueue(ps)

\* chunks.map(chunk => activePool.enqueue(chunk, config)) over n chunks.
RECURSIVE enqueueAll(_, _)
enqueueAll(ps, n) == IF n = 0 THEN ps ELSE enqueueAll(enqueue(ps), n - 1)

\* Index of the chunk a task was created for.
ChunkOf(c, t) == CHOOSE k \in 1..Len(c.tasks) : c.tasks[k] = t

\* ------------------------------------------------------------ speaker.ts
\* speakText(messageID, text) with messageID m, run as call u, up to the
\* first await of the backend's speak.
SpeakMessage(u, m) ==
  /\ calls[u].pc = "idle"
  /\ \A v \in Calls : v < u => calls[v].pc # "idle"
  /\ config.maxWorkers > 0 => u <= MaxPooledCalls
  /\ IF lastSpoken = m
     THEN /\ calls' = [calls EXCEPT ![u] = Done([@ EXCEPT !.msg = m], "resolved")]
          /\ Commit(World)
          /\ UNCHANGED <<lastSpoken, disk, config, applyPc, toggles, aux>>
     ELSE IF ~config.enabled
     THEN /\ Commit(cancelTts(World, config))
          /\ calls' = [calls EXCEPT ![u] = Done([@ EXCEPT !.msg = m], "resolved")]
          /\ UNCHANGED <<lastSpoken, disk, config, applyPc, toggles, aux>>
     ELSE /\ isReady(World, config)
          /\ LET W1 == IF lastSpoken # 0 THEN interruptTts(World, config) ELSE World IN
             /\ CanInit(W1, config)
             /\ \E n \in 1..MaxChunks :
                  IF config.backend = "local"
                  THEN LET r == speakLocalStart([calls[u] EXCEPT !.msg = m], W1, config, n) IN
                       /\ Commit(r.W)
                       /\ calls' = [calls EXCEPT ![u] = r.c]
                  ELSE /\ Commit(W1)
                       /\ calls' = [calls EXCEPT ![u] =
                                       speakHttp([@ EXCEPT !.msg = m], W1, config, n)]
          /\ lastSpoken' = m
          /\ UNCHANGED <<disk, config, applyPc, toggles, aux>>

\* speakText for a message that was not passed to speakText before.
SpeakText(u) ==
  /\ \A v \in Calls : calls[v].msg # u
  /\ SpeakMessage(u, u)

\* speakText for the message of an earlier call (the message is the latest
\* one again after one of its parts was updated).
SpeakAgain(u, m) ==
  /\ m < u
  /\ calls[m].msg = m
  /\ SpeakMessage(u, m)

\* --------------------------------------------------- speak.ts, init chain
\* pool.ready.then(...) of initLocalTts.
PoolInitThen(p) ==
  /\ local.chain[p] = "pending"
  /\ pools[p].ready = "resolved"
  /\ local' = [local EXCEPT !.chain[p] = "true", !.poolReady = TRUE]
  /\ UNCHANGED <<pools, npools, disk, audio, config, calls, lastSpoken, applyPc,
                 http, toggles, aux>>

\* pool.ready...catch(...) of initLocalTts.
PoolInitCatch(p) ==
  /\ local.chain[p] = "pending"
  /\ pools[p].ready = "rejected"
  /\ local' = [local EXCEPT !.chain[p] = "false", !.poolReady = FALSE, !.pool = 0]
  /\ UNCHANGED <<pools, npools, disk, audio, config, calls, lastSpoken, applyPc,
                 http, toggles, aux>>

\* initLocalModel() settles: localInit's then callback stores the model.
LocalModelLoaded ==
  /\ local.localInit = "pending"
  /\ \E ok \in BOOLEAN :
       local' = [local EXCEPT !.localModel = ok,
                              !.localInit = IF ok THEN "true" ELSE "false"]
  /\ UNCHANGED <<pools, npools, disk, audio, config, calls, lastSpoken, applyPc,
                 http, toggles, aux>>

\* ------------------------------------------------- speak.ts, speakLocal
InitSettled(c) ==
  \/ c.wait = 0
  \/ c.wait = -2 /\ local.localInit \in {"true", "false"}
  \/ c.wait > 0 /\ local.chain[c.wait] \in {"true", "false"}

InitValue(c) ==
  \/ c.wait = 0
  \/ c.wait = -2 /\ local.localInit = "true"
  \/ c.wait > 0 /\ local.chain[c.wait] = "true"

\* speakLocal from the return of `await initLocalTts` to its next await.
LocalAfterInit(u) ==
  LET c == calls[u] IN
  /\ c.pc = "init"
  /\ InitSettled(c)
  /\ IF ~InitValue(c) \/ c.token # local.cancelToken
     THEN /\ calls' = [calls EXCEPT ![u] = Done(c, "resolved")]
          /\ UNCHANGED pools
     ELSE IF config.maxWorkers <= 0 /\ local.localModel
     THEN /\ calls' = [calls EXCEPT ![u] =
                         LoopHead([c EXCEPT !.mode = "direct"], 1, World, config)]
          /\ UNCHANGED pools
     ELSE IF local.pool = 0
     THEN /\ calls' = [calls EXCEPT ![u] = Done(c, "resolved")]
          /\ UNCHANGED pools
     ELSE LET ap == local.pool
              first == pools[ap].nextId
          IN /\ first + c.n <= MaxTasks
             /\ pools' = [pools EXCEPT ![ap] = enqueueAll(@, c.n)]
             /\ calls' = [calls EXCEPT ![u] =
                   LoopHead([c EXCEPT !.mode = "pool", !.apool = ap,
                                      !.tasks = [k \in 1..c.n |-> first + k - 1]],
                            1, World, config)]
  /\ UNCHANGED <<npools, disk, local, audio, config, lastSpoken, applyPc, http, toggles, aux>>

\* A loop that starts playAudio without awaiting it and goes on at once.
BeforePlayNoAwait(u, c, k) ==
  IF Superseded(c, World, config)
  THEN /\ calls' = [calls EXCEPT ![u] = ToCleanup(c, World, "no")]
       /\ UNCHANGED audio
  ELSE \E spawned \in BOOLEAN :
       /\ audio' = runCommand(audio, u, 1, spawned)
       /\ calls' = [calls EXCEPT ![u] =
                       LoopHead([c EXCEPT !.played = Append(@, k)], c.i + 1, World, config)]

\* The checkpoint before playAudio and, when it passes, playAudio up to the
\* first `await runCommand`: c has the chunk's file, k is the chunk's index.
BeforePlay(u, c, k) ==
  IF Superseded(c, World, config)
  THEN /\ calls' = [calls EXCEPT ![u] = ToCleanup(c, World, "no")]
       /\ UNCHANGED audio
  ELSE \E spawned \in BOOLEAN :
       /\ audio' = runCommand(audio, u, 1, spawned)
       /\ calls' = [calls EXCEPT ![u] = [c EXCEPT !.pc = "play",
                                                  !.played = Append(@, k)]]

\* playFromWorkers: `await tasks[i]` returns or throws.
TaskSettled(u) ==
  LET c == calls[u] IN
  /\ c.pc = "task"
  /\ pools[c.apool].promise[awaited(c)] \notin {"none", "pending"}
  /\ IF pools[c.apool].promise[awaited(c)] # "resolved"
     THEN /\ calls' = [calls EXCEPT ![u] =
                         ToCleanup(c, World, pools[c.apool].promise[awaited(c)])]
          /\ UNCHANGED audio
     ELSE BeforePlay(u, [c EXCEPT !.files = @ \cup {<<c.apool, awaited(c), 0>>}],
                     ChunkOf(c, awaited(c)))
  /\ UNCHANGED <<pools, npools, disk, local, config, lastSpoken, applyPc, http, toggles, aux>>

\* playDirect: `await localModel.generate` and `await writeTempWav` return,
\* or one of them throws.
GenerateDone(u) ==
  LET c == calls[u] IN
  /\ c.pc = "gen"
  /\ \E ok \in BOOLEAN :
       IF ok
       THEN /\ disk' = disk \cup {<<0, u, c.i>>}
            /\ BeforePlay(u, [c EXCEPT !.files = @ \cup {<<0, u, c.i>>}], c.i)
       ELSE /\ calls' = [calls EXCEPT ![u] = ToCleanup(c, World, "error")]
            /\ UNCHANGED <<audio, disk>>
  /\ UNCHANGED <<pools, npools, local, config, lastSpoken, applyPc, http, toggles, aux>>

\* engine-http.ts, synthesizeChunk of chunk k: the request is answered and the
\* audio is written to a temporary file, or the request fails.
SynthesizeChunk(u, k) ==
  /\ calls[u].pc # "idle"
  /\ k \in 1..Len(calls[u].synth)
  /\ calls[u].synth[k] = "pending"
  /\ \E ok \in BOOLEAN :
       /\ calls' = [calls EXCEPT ![u].synth[k] = IF ok THEN "ok" ELSE "failed"]
       /\ disk' = IF ok THEN disk \cup {<<-1, u, k>>} ELSE disk
  /\ UNCHANGED <<pools, npools, local, audio, config, lastSpoken, applyPc, http, toggles, aux>>

\* playInOrder: `await synthesisPromises[i]` returns the file or throws.
SynthDone(u) ==
  LET c == calls[u] IN
  /\ c.pc = "synth"
  /\ c.synth[c.i] # "pending"
  /\ IF c.synth[c.i] = "ok"
     THEN BeforePlay(u, [c EXCEPT !.files = @ \cup {<<-1, u, c.i>>}], c.i)
     ELSE /\ calls' = [calls EXCEPT ![u] = ToCleanup(c, World, "error")]
          /\ UNCHANGED audio
  /\ UNCHANGED <<pools, npools, disk, local, config, lastSpoken, applyPc, http, toggles, aux>>

\* A running player subprocess ends by itself, with exit code 0 or not.
PlayerExit(u) ==
  /\ audio.proc[u].st = "running"
  /\ \E st \in {"exit0", "exit1"} : audio' = [audio EXCEPT !.proc[u].st = st]
  /\ UNCHANGED <<pools, npools, disk, local, config, calls, lastSpoken, applyPc,
                 http, toggles, aux>>

\* A tryPlayers loop that takes no exit status for a success.
SucceededNever(pr) == FALSE

\* tryPlayers: `status === 0` for the status runCommand returned.
Succeeded(pr) == pr.st = "exit0"

\* runCommand after `await proc.exited`, the rest of tryPlayers' loop and,
\* when playAudio returns, the next iteration of the caller's loop.
PlayerReturned(u) ==
  LET c == calls[u]
      pr == audio.proc[u]
      a1 == [audio EXCEPT !.proc[u] = NoProc,
                          !.currentProcess =
                             IF pr.st # "nospawn" /\ @ = u THEN 0 ELSE @]
  IN
  /\ c.pc = "play"
  /\ pr.st \in {"killed", "exit0", "exit1", "nospawn"}
  /\ IF Succeeded(pr)
     THEN /\ audio' = a1
          /\ calls' = [calls EXCEPT ![u] = LoopHead(c, c.i + 1, World, config)]
     ELSE IF pr.cand < NumPlayers
     THEN /\ \E spawned \in BOOLEAN : audio' = runCommand(a1, u, pr.cand + 1, spawned)
          /\ UNCHANGED calls
     ELSE /\ audio' = a1
          /\ calls' = [calls EXCEPT ![u] = ToCleanup(c, World, "players")]
  /\ UNCHANGED <<pools, npools, disk, local, config, lastSpoken, applyPc, http, toggles, aux>>

\* The finally block: cleanupFiles unlinks the files the loop pushed, then the
\* speak promise resolves, or rejects with the error the loop threw.
Cleanup(u) ==
  LET c == calls[u] IN
  /\ c.pc = "cleanup"
  /\ disk' = disk \ c.files
  /\ IF c.failed = "no"
     THEN /\ calls' = [calls EXCEPT ![u] = Done(c, "resolved")]
          /\ Commit(World)
     ELSE IF ~c.fb /\ FallsBack(World, config)
     THEN IF ~config.enabled
          THEN /\ calls' = [calls EXCEPT ![u] = Done(c, "resolved")]
               /\ Commit(World)
          ELSE \E n \in 1..MaxChunks :
               LET r == speakLocalStart([IdleCall EXCEPT !.fb = TRUE, !.off = c.off,
                                                         !.synth = c.synth,
                                                         !.msg = c.msg],
                                        World, config, n) IN
               /\ CanInit(World, config)
               /\ Commit(r.W)
               /\ calls' = [calls EXCEPT ![u] = r.c]
     ELSE /\ calls' = [calls EXCEPT ![u] = speakTextCatch(Done(c, "rejected"))]
          /\ Commit(World)
  /\ UNCHANGED <<config, lastSpoken, applyPc, toggles, aux>>

\* ------------------------------------------------- commands/tts-command.ts
\* The plugin's start-up timer: initTts(config).
Startup ==
  /\ npools = 0
  /\ local.localInit = "null"
  /\ Commit(initLocalTts(World, config).W)
  /\ UNCHANGED <<disk, config, calls, lastSpoken, applyPc, toggles, aux>>

\* apply("tts-off"): config.enabled = false, then (after an await) cancelTts.
ApplyOff ==
  /\ applyPc = "idle"
  /\ toggles < MaxToggles
  /\ config.enabled
  /\ config' = [config EXCEPT !.enabled = FALSE]
  /\ applyPc' = "off"
  /\ toggles' = toggles + 1
  /\ calls' = [u \in Calls |->
                 IF calls[u].pc \in {"idle", "done"} THEN calls[u]
                 ELSE [calls[u] EXCEPT !.off = TRUE]]
  /\ UNCHANGED <<pools, npools, disk, local, audio, lastSpoken, http, aux>>

ApplyOffCancel ==
  /\ applyPc = "off"
  /\ Commit(cancelTts(World, config))
  /\ applyPc' = "idle"
  /\ UNCHANGED <<disk, config, calls, lastSpoken, toggles, aux>>

\* apply("tts-on"): config.enabled = true, then initTts(config).
ApplyOn ==
  /\ applyPc = "idle"
  /\ toggles < MaxToggles
  /\ ~config.enabled
  /\ CanInit(World, config)
  /\ config' = [config EXCEPT !.enabled = TRUE]
  /\ Commit(initLocalTts(World, config).W)
  /\ toggles' = toggles + 1
  /\ UNCHANGED <<disk, calls, lastSpoken, applyPc, aux>>

\* apply("tts-profile", name) for a profile of tts.jsonc with a remote
\* backend: the server checks are reset, the profile is assigned to config,
\* and initTts(config) starts checkHttpServer.
SwitchProfile ==
  /\ applyPc = "idle"
  /\ toggles < MaxToggles
  /\ config.backend = "local"
  /\ \E fallback \in BOOLEAN :
       config' = [config EXCEPT !.backend = "http", !.fallbackToLocal = fallback]
  /\ http' = [http EXCEPT !.serverChecked = FALSE, !.serverAvailable = FALSE,
                          !.checking = TRUE]
  /\ toggles' = toggles + 1
  /\ UNCHANGED <<pools, npools, disk, local, audio, calls, lastSpoken, applyPc,
                 aux>>

\* checkHttpServer after its fetch: the server answered ok, or not.
CheckHttpServerDone ==
  /\ http.checking
  /\ \E ok \in BOOLEAN :
       http' = [http EXCEPT !.serverAvailable = ok, !.serverChecked = TRUE,
                            !.checking = FALSE]
  /\ UNCHANGED <<pools, npools, disk, local, audio, config, calls, lastSpoken,
                 applyPc, toggles, aux>>

\* ---------------------------------------------------------- specification
Init ==
  /\ npools = 0
  /\ pools = [p \in Pools |-> Unborn]
  /\ disk = {}
  /\ \E workers \in {0, NumWorkers}, enabled \in BOOLEAN : InitOrch(workers, enabled)

Next ==
  \/ Startup
  \/ \E u \in Calls : SpeakText(u)
  \/ \E u \in Calls : LocalAfterInit(u)
  \/ \E u \in Calls : TaskSettled(u)
  \/ \E u \in Calls : GenerateDone(u)
  \/ \E u \in Calls : PlayerExit(u)
  \/ \E u \in Calls : PlayerReturned(u)
  \/ \E u \in Calls : Cleanup(u)
  \/ \E p \in Pools : PoolInitThen(p)
  \/ \E p \in Pools : PoolInitCatch(p)
  \/ LocalModelLoaded
  \/ ApplyOff
  \/ ApplyOffCancel
  \/ ApplyOn
  \/ \E p \in Pools, w \in Workers : WorkerReady(p, w)
  \/ \E p \in Pools, w \in Workers : WorkerGenerate(p, w)
  \/ \E p \in Pools, w \in Workers : ReadMessage(p, w)
  \/ \E p \in Pools, w \in Workers : ProcExited(p, w)

Spec == Init /\ [][Next]_vars

\* ------------------------------------------- initialization of the local engine
\* A caller (the start-up timer, "/tts on", a speakLocal call) calls
\* initLocalTts(config) and awaits the promise it returns.
InitTts(u) ==
  /\ calls[u].pc = "idle"
  /\ \A v \in Calls : v < u => calls[v].pc # "idle"
  /\ \/ config.maxWorkers <= 0
     \/ local.poolReady /\ local.pool # 0
     \/ local.poolInit # 0
     \/ npools < MaxInitPools
  /\ LET r == initLocalTts(World, config) IN
     /\ Commit(r.W)
     /\ calls' = [calls EXCEPT ![u] = [@ EXCEPT !.pc = "initcall", !.wait = r.wait]]
  /\ UNCHANGED <<disk, config, lastSpoken, applyPc, toggles, aux>>

\* The promise initLocalTts returned settles: the caller reads its value.
InitTtsDone(u) ==
  /\ calls[u].pc = "initcall"
  /\ InitSettled(calls[u])
  /\ calls' = [calls EXCEPT ![u] =
        [@ EXCEPT !.pc = "done",
                  !.outcome = IF InitValue(calls[u]) THEN "true" ELSE "false"]]
  /\ UNCHANGED <<pools, npools, disk, local, audio, config, lastSpoken, applyPc,
                 http, toggles, aux>>

\* speakText interrupts the local engine.
EnvInterrupt ==
  /\ local.cancelToken < MaxCancels
  /\ Commit(interruptLocalSpeak(World))
  /\ UNCHANGED <<disk, config, calls, lastSpoken, applyPc, toggles, aux>>

\* "/tts off", or speakText while disabled, cancels the local engine.
EnvCancel ==
  /\ local.cancelToken < MaxCancels
  /\ Commit(cancelLocalSpeak(World))
  /\ UNCHANGED <<disk, config, calls, lastSpoken, applyPc, toggles, aux>>

InitLocal ==
  /\ npools = 0
  /\ pools = [p \in Pools |-> Unborn]
  /\ disk = {}
  /\ \E workers \in {0, NumWorkers} : InitOrch(workers, TRUE)

NextLocal ==
  \/ \E u \in Calls : InitTts(u)
  \/ \E u \in Calls : InitTtsDone(u)
  \/ EnvInterrupt
  \/ EnvCancel
  \/ LocalModelLoaded
  \/ \E p \in Pools : PoolInitThen(p)
  \/ \E p \in Pools : PoolInitCatch(p)
  \/ \E p \in Pools, w \in Workers : WorkerReady(p, w)
  \/ \E p \in Pools, w \in Workers : WorkerCrash(p, w)
  \/ \E p \in Pools, w \in Workers : ReadMessage(p, w)
  \/ \E p \in Pools, w \in Workers : ProcExited(p, w)

SpecLocal == InitLocal /\ [][NextLocal]_vars

\* The engine router: the plugin starts on the local backend in direct mode
\* and a "/tts profile" command moves it to a remote backend.
InitRouter ==
  /\ npools = 0
  /\ pools = [p \in Pools |-> Unborn]
  /\ disk = {}
  /\ InitOrch(0, TRUE)

NextRouter ==
  \/ Startup
  \/ LocalModelLoaded
  \/ SwitchProfile
  \/ CheckHttpServerDone
  \/ \E u \in 1..MaxRouterCalls : SpeakText(u)
  \/ \E u \in Calls : LocalAfterInit(u)
  \/ \E u \in Calls : GenerateDone(u)
  \/ \E u \in Calls, k \in 1..MaxChunks : SynthesizeChunk(u, k)
  \/ \E u \in Calls : SynthDone(u)
  \/ \E u \in Calls : PlayerExit(u)
  \/ \E u \in Calls : PlayerReturned(u)
  \/ \E u \in Calls : Cleanup(u)

SpecRouter == InitRouter /\ [][NextRouter]_vars

\* The speaker: direct mode, messages may be passed to speakText again.
NextSpeaker ==
  \/ Startup
  \/ LocalModelLoaded
  \/ \E u \in Calls : SpeakText(u)
  \/ \E u \in Calls, m \in Calls : SpeakAgain(u, m)
  \/ \E u \in Calls : LocalAfterInit(u)
  \/ \E u \in Calls : GenerateDone(u)
  \/ \E u \in Calls : PlayerExit(u)
  \/ \E u \in Calls : PlayerReturned(u)
  \/ \E u \in Calls : Cleanup(u)

SpecSpeaker == InitRouter /\ [][NextSpeaker]_vars

\* ------------------------------------------------------ speakLocal claims
Active(u) == calls[u].pc \notin {"idle", "done"}
Running == {u \in Calls : audio.proc[u].st = "running"}

\* C1: a pooled utterance calls playAudio for its chunks in index order,
\* 1, 2, ..., whatever the order of the workers' results; a player belongs to
\* the chunk the loop stands at, and chunk i is awaited only once the
\* playAudio calls of chunks 1..i-1 have all returned.
C1_PlayInChunkOrder ==
  \A u \in Calls :
    calls[u].mode = "pool" =>
      /\ \A k \in 1..Len(calls[u].played) : calls[u].played[k] = k
      /\ audio.proc[u].st # "none" =>
           calls[u].pc = "play" /\ Len(calls[u].played) = calls[u].i
      /\ calls[u].pc = "task" => Len(calls[u].played) = calls[u].i - 1

\* The result of chunk 2 is in before the result of chunk 1, and the call
\* goes on waiting for chunk 1 without having played anything.
C1_Witness ==
  \E u \in Calls :
    /\ calls[u].mode = "pool" /\ calls[u].pc = "task" /\ calls[u].i = 1
    /\ calls[u].n = 2 /\ calls[u].played = <<>>
    /\ pools[calls[u].apool].promise[calls[u].tasks[2]] = "resolved"
    /\ pools[calls[u].apool].promise[calls[u].tasks[1]] = "pending"

\* C5: when speakText interrupts the local engine, every player of a local
\* utterance that is running at that moment is killed, and an utterance whose
\* token is stale never starts another playAudio.
C5_InterruptStopsUtterance ==
  [][/\ (lastSpoken' # lastSpoken /\ local'.cancelToken # local.cancelToken)
          => \A u \in Calls :
               (calls[u].via = "local" /\ audio.proc[u].st = "running")
                 => audio'.proc[u].st # "running"
     /\ \A u \in Calls :
          (Active(u) /\ calls[u].via = "local" /\ calls[u].token # local.cancelToken
             /\ calls[u].pc # "play")
            => calls'[u].pc # "play"]_vars

\* C6: a speakLocal call that left its loop with a stale token resolves; it
\* rejects at most with a synthesis error of its own chunk (a worker's error
\* reply, a throw of generate), which no interrupt or cancel causes.
C6_SupersededCallResolves ==
  [][\A u \in Calls :
       (calls[u].pc = "cleanup" /\ calls'[u].pc = "done" /\ calls[u].via = "local"
          /\ calls[u].sup)
         => calls'[u].outcome = "resolved" \/ calls[u].failed = "error"]_vars

\* The files the chunks of call u are generated into.
FilesOf(u) ==
  IF calls[u].mode = "pool"
  THEN {<<calls[u].apool, calls[u].tasks[k], 0>> : k \in 1..Len(calls[u].tasks)}
  ELSE {<<0, u, k>> : k \in 1..MaxChunks}

\* C7: once a speakLocal call has finished, no file generated for one of its
\* chunks is on disk.
C7_NoFileLeftBehind ==
  \A u \in Calls :
    (calls[u].pc = "done" /\ calls[u].via = "local") => FilesOf(u) \cap disk = {}

\* C8: at most one player subprocess is running, and it is currentProcess.
C8_OnePlayerAtATime ==
  /\ Cardinality(Running) <= 1
  /\ \A u \in Running : audio.currentProcess = u

\* C10: a speakLocal call that was running when "/tts off" set config.enabled
\* to false starts no generation and no playAudio any more, and when the
\* command's cancelTts has run no player of a local utterance is running.
C10_DisableStopsUtterance ==
  [][/\ \A u \in Calls :
          (Active(u) /\ calls[u].via = "local" /\ calls[u].off)
            => /\ calls[u].pc # "play" => calls'[u].pc # "play"
               /\ calls[u].pc # "gen" => calls'[u].pc # "gen"
     /\ (applyPc = "off" /\ applyPc' = "idle")
          => \A u \in Calls : calls[u].via = "local" => audio'.proc[u].st # "running"]_vars

\* C9: once speakText has started a newer message, an utterance of an older
\* message that is still running starts no further playAudio, whichever
\* engine speaks it.
C9_NewUtteranceSilencesPrevious ==
  [][\A u \in Calls :
       (Active(u) /\ lastSpoken' # u /\ calls[u].pc # "play")
         => calls'[u].pc # "play"]_vars

\* -------------------------------------------------- initialization claims
\* u calls initLocalTts in this step.
InitCallBy(u) == calls[u].pc = "idle" /\ calls'[u].pc = "initcall"

\* C11: in every reachable state, interruptLocalSpeak leaves pool, poolReady,
\* poolInit, localModel and the pools themselves as they are; cancelLocalSpeak
\* shuts the current pool down and leaves pool, poolReady and poolInit
\* cleared, so that a pooled initLocalTts right after it creates a new pool.
C11_InterruptKeepsCancelClears ==
  LET Wi == interruptLocalSpeak(World)
      Wc == cancelLocalSpeak(World)
      r == initLocalTts(Wc, [config EXCEPT !.maxWorkers = NumWorkers])
  IN /\ Wi.local.pool = local.pool /\ Wi.local.poolReady = local.poolReady
     /\ Wi.local.poolInit = local.poolInit /\ Wi.local.localModel = local.localModel
     /\ Wi.pools = pools
     /\ local.pool # 0 => Wc.pools[local.pool].shut
     /\ Wc.local.pool = 0 /\ ~Wc.local.poolReady /\ Wc.local.poolInit = 0
     /\ npools < MaxInitPools => r.W.npools = npools + 1 /\ r.W.local.pool = npools + 1

\* C12: an initLocalTts call made while an initialization is in flight starts
\* no other one (no pool is created, no model load is started) and returns the
\* promise of the one in flight; callers holding the same promise read the
\* same outcome.
C12_InitCallsShareOneInit ==
  [][/\ \A u \in Calls :
          InitCallBy(u) =>
            /\ (config.maxWorkers > 0 /\ local.poolInit # 0
                   /\ local.chain[local.poolInit] = "pending")
                 => /\ npools' = npools /\ pools' = pools /\ local' = local
                    /\ calls'[u].wait = local.poolInit
            /\ (config.maxWorkers <= 0 /\ local.localInit = "pending")
                 => local' = local /\ calls'[u].wait = -2
     /\ \A u, v \in Calls :
          (calls'[u].pc = "done" /\ calls'[v].pc = "done"
             /\ calls'[u].wait = calls'[v].wait /\ calls'[u].wait # 0)
            => calls'[u].outcome = calls'[v].outcome]_vars

\* C13: an initLocalTts call made after the initialization failed starts a
\* new attempt: a new pool in pooled mode, a new model load in direct mode.
C13_InitRetriesAfterFailure ==
  [][\A u \in Calls :
       InitCallBy(u) =>
         /\ (config.maxWorkers > 0 /\ local.poolInit # 0
                /\ local.chain[local.poolInit] = "false" /\ npools < MaxInitPools)
              => npools' = npools + 1 /\ calls'[u].wait = npools + 1
         /\ (config.maxWorkers <= 0 /\ local.localInit = "false")
              => local'.localInit = "pending"]_vars

\* The pool has handled the ready message of one of its workers.
SeenReady(ps) == \E w \in Workers : ps.states[w].ready

\* C33: when the exit callback of a worker runs before the pool has handled
\* any ready message, the pool's ready promise is rejected, and the catch of
\* initLocalTts then yields false, clears pool and leaves poolReady false;
\* initLocalTts yields true only for a pool whose ready promise resolved. When
\* the exit callback runs after a ready message was handled, the ready
\* promise stays as it is (resolved stays resolved) and pool, poolReady and
\* poolInit are not touched.
C33_ExitBeforeReadyFailsInit ==
  [][/\ \A p \in Pools, w \in Workers :
          (pools[p].proc[w] = "dead" /\ pools'[p].proc[w] = "reaped")
            => IF SeenReady(pools[p])
               THEN /\ pools'[p].ready = pools[p].ready
                    /\ pools[p].ready # "pending"
                    /\ local' = local
               ELSE /\ pools'[p].ready = "rejected"
                    /\ local' = local
     /\ \A p \in Pools :
          /\ (local.chain[p] = "pending" /\ pools[p].ready = "rejected"
                 /\ local'.chain[p] # "pending")
               => /\ local'.chain[p] = "false"
                  /\ local'.pool = 0 /\ ~local'.poolReady
          /\ (local.chain[p] = "pending" /\ local'.chain[p] = "true")
               => pools[p].ready = "resolved" /\ local'.poolReady
     /\ \A u \in Calls :
          (calls[u].pc = "initcall" /\ calls'[u].pc = "done" /\ calls[u].wait > 0)
            => (calls'[u].outcome = "false"
                  <=> pools[calls[u].wait].ready = "rejected")]_vars

\* A worker exited before any worker of its pool was ready: the pool's ready
\* promise is rejected, a caller of initLocalTts got false and pool is null.
C33_Witness ==
  \E p \in Pools, u \in Calls :
    /\ pools[p].ready = "rejected"
    /\ \E w \in Workers : pools[p].proc[w] = "reaped"
    /\ local.chain[p] = "false" /\ local.pool = 0
    /\ calls[u].pc = "done" /\ calls[u].wait = p /\ calls[u].outcome = "false"

\* C36: whenever poolReady is true, pool is non-null and is a pool whose
\* ready promise has resolved; and a step of a pool that was shut down (a
\* message or exit of one of its workers, the then or catch of its ready
\* promise) changes neither pool nor poolReady.
C36_PoolReadyMeansCurrentPoolReady ==
  [][/\ local'.poolReady
          => local'.pool # 0 /\ pools'[local'.pool].ready = "resolved"
     /\ \A p \in Pools :
          (/\ pools[p].shut
           /\ pools'[p] # pools[p] \/ local'.chain[p] # local.chain[p])
            => local'.pool = local.pool /\ local'.poolReady = local.poolReady]_vars

\* C40: a pool that was created and is not the module's pool any more has
\* no worker process alive.
C40_NoWorkerOfDroppedPoolAlive ==
  \A p \in Pools :
    (p <= npools /\ local.pool # p)
      => \A w \in Workers : pools[p].proc[w] \notin {"loading", "up"}

C27_DispatchInEnqueueOrder ==
  [][\A p \in Pools :
       LET ps == pools[p]
           ps2 == pools'[p]
       IN /\ \A i \in 1..Len(ps2.tasks) :
               /\ ps2.tasks[i] < ps2.nextId
               /\ \A j \in 1..Len(ps2.tasks) : i < j => ps2.tasks[i] < ps2.tasks[j]
          /\ ps2.nextId >= ps.nextId
          /\ \A t \in TaskIds :
               (ps.promise[t] = "none" /\ ps2.promise[t] # "none")
                 => t = ps.nextId /\ ps2.nextId = t + 1
          /\ \A w \in Workers :
               (ps2.states[w].task # NoTask /\ ps2.states[w].task # ps.states[w].task)
                 => /\ \A i \in 1..Len(ps2.tasks) : ps2.tasks[i] > ps2.states[w].task
                    /\ \A v \in Workers :
                         (ps.states[v].task # NoTask /\ ps2.states[v].task = ps.states[v].task)
                           => ps.states[v].task < ps2.states[w].task]_vars

\* A worker holds a task that was enqueued behind another one, and a later
\* task is waiting in the queue.
C27_Witness ==
  \E p \in Pools, w \in Workers :
    /\ pools[p].states[w].task > 0
    /\ Len(pools[p].tasks) > 0
    /\ \E v \in Workers : pools[p].states[v].task = pools[p].states[w].task - 1

\* C28: between the pool's event handlers no task waits in the queue while a
\* worker is ready, not busy and not failed.
C28_NoIdleWorkerWithQueuedTask ==
  \A p \in Pools :
    Len(pools[p].tasks) > 0 =>
      \A w \in Workers :
        pools[p].states[w].failed \/ ~pools[p].states[w].ready \/ pools[p].states[w].busy

\* Tasks wait in the queue of a pool all of whose workers are ready and busy.
C28_Witness ==
  \E p \in Pools :
    /\ Len(pools[p].tasks) > 0
    /\ \A w \in Workers :
         /\ pools[p].states[w].ready /\ pools[p].states[w].busy
         /\ ~pools[p].states[w].failed

C30_DirectModeIsSequential ==
  [][\A u \in Calls :
       (/\ calls'[u].pc = "gen"
        /\ calls[u].pc # "gen" \/ calls[u].i # calls'[u].i)
         => /\ calls'[u].mode = "direct"
            /\ calls'[u].tasks = <<>>
            /\ audio'.proc[u].st = "none"
            /\ calls'[u].played = [k \in 1..(calls'[u].i - 1) |-> k]
            /\ calls'[u].i > 1 =>
                 /\ calls[u].pc = "play" /\ calls[u].i = calls'[u].i - 1
                 /\ audio.proc[u].st = "exit0"]_vars

\* A direct-mode utterance generates its second chunk after its first one
\* was played.
C30_Witness ==
  \E u \in Calls :
    /\ calls[u].mode = "direct" /\ calls[u].pc = "gen"
    /\ calls[u].i = 2 /\ calls[u].played = <<1>>

\* C31: the step in which a speakLocal call enters pooled mode enqueues one
\* task per chunk, with consecutive ids in chunk order, before the call has
\* awaited a result or started a player; its task list never changes later.
C31_AllChunksEnqueuedUpFront ==
  [][\A u \in Calls :
       /\ (calls[u].mode # "pool" /\ calls'[u].mode = "pool")
            => LET c2 == calls'[u]
                   first == pools[c2.apool].nextId
               IN /\ Len(c2.tasks) = c2.n
                  /\ pools'[c2.apool].nextId = first + c2.n
                  /\ \A k \in 1..c2.n :
                       /\ c2.tasks[k] = first + k - 1
                       /\ pools[c2.apool].promise[c2.tasks[k]] = "none"
                       /\ pools'[c2.apool].promise[c2.tasks[k]] # "none"
                  /\ c2.played = <<>> /\ c2.files = {}
                  /\ audio'.proc[u] = NoProc
                  /\ c2.pc = "task" => c2.i = 1
       /\ (calls[u].mode = "pool" /\ calls'[u].mode = "pool")
            => calls'[u].tasks = calls[u].tasks /\ calls'[u].apool = calls[u].apool]_vars

\* The first chunk of a pooled utterance is playing while a worker is
\* generating its second chunk.
C31_Witness ==
  \E u \in Calls, w \in Workers :
    /\ calls[u].mode = "pool" /\ calls[u].pc = "play" /\ calls[u].i = 1
    /\ calls[u].n = 2
    /\ audio.proc[u].st = "running"
    /\ pools[calls[u].apool].states[w].task = calls[u].tasks[2]
    /\ pools[calls[u].apool].promise[calls[u].tasks[2]] = "pending"
    /\ pools[calls[u].apool].stdin[w] # <<>>

\* C32: the local cancelToken changes only in a step that calls
\* interruptLocalSpeak or cancelLocalSpeak (speakText, or the cancelTts of
\* "/tts off"); such a step raises it by exactly 1, kills the player that is
\* currentProcess and clears currentProcess; every other step leaves it alone.
C32_TokenOnlyGrowsByCancel ==
  [][LET token == local.cancelToken
         cancels == applyPc = "off" /\ applyPc' = "idle"
         speaks == \E u \in Calls : calls[u].pc = "idle" /\ calls'[u].pc # "idle"
         interrupts == speaks /\ (~config.enabled \/ lastSpoken # 0)
     IN /\ local'.cancelToken >= token
        /\ (cancels \/ interrupts) <=> local'.cancelToken # token
        /\ local'.cancelToken # token
             => /\ local'.cancelToken = token + 1
                /\ audio'.currentProcess = 0
                /\ \A u \in Calls :
                     audio'.proc[u] =
                       IF u = audio.currentProcess /\ audio.proc[u].st = "running"
                       THEN [audio.proc[u] EXCEPT !.st = "killed"]
                       ELSE audio.proc[u]]_vars

\* The token has been raised twice and the player of an utterance that
\* started before has been killed.
C32_Witness ==
  \E u \in Calls :
    /\ local.cancelToken = 2
    /\ calls[u].via = "local" /\ calls[u].token = 0
    /\ audio.proc[u].st = "killed"

\* C38: for an utterance that was started before the latest interrupt or
\* cancel (its token is stale), no player process is spawned any more, be it
\* for a next chunk or as the next candidate for the file that was playing.
C38_NoPlayerAfterInterrupt ==
  [][\A u \in Calls :
       (Active(u) /\ Stale(calls[u], World))
         => ~(/\ audio'.proc[u].st = "running"
              /\ audio.proc[u].st # "running" \/ audio'.proc[u].cand # audio.proc[u].cand)]_vars

\* ---------------------------------------------------------- worker claims
\* C22: a worker writes "ready" only when it has finished loading, which
\* happens once and before it takes any request; each request it takes is
\* answered in the same step by exactly one line, a result or an error with
\* the request's id; and it writes nothing else.
C22_WorkerProtocol ==
  [][\A p \in Pools, w \in Workers :
       LET out == pools[p].stdout[w]
           out2 == pools'[p].stdout[w]
           in == pools[p].stdin[w]
           in2 == pools'[p].stdin[w]
           wrote == Len(out2) > Len(out)
           took == Len(in2) < Len(in)
       IN /\ wrote => /\ Len(out2) = Len(out) + 1
                       /\ SubSeq(out2, 1, Len(out)) = out
          /\ (wrote /\ out2[Len(out2)].type = "ready")
               => /\ pools[p].proc[w] = "loading" /\ pools'[p].proc[w] = "up"
                  /\ ~took
          /\ (wrote /\ out2[Len(out2)].type # "ready") => took
          /\ took => /\ pools[p].proc[w] = "up"
                      /\ in2 = Tail(in)
                      /\ wrote
                      /\ out2[Len(out2)].type \in {"result", "error"}
                      /\ out2[Len(out2)].id = Head(in)
          /\ pools[p].proc[w] # "loading" => pools'[p].proc[w] # "loading"]_vars

\* A worker has answered the request of the task it holds with an error.
C22_Witness ==
  \E p \in Pools, w \in Workers :
    /\ pools[p].proc[w] = "up"
    /\ pools[p].stdin[w] = <<>>
    /\ Len(pools[p].stdout[w]) = 1
    /\ pools[p].stdout[w][1].type = "error"
    /\ pools[p].stdout[w][1].id = pools[p].states[w].task

\* ------------------------------------------------------------------ text.ts
\* Strings are sequences of one-character strings.
MaxText == 5
MaxLength == 3
Chars == {"a", "b", " ", ".", "\n"}
Terminators == {".", "!", "?", "\n"}     \* the class [.!?\n] of the regex
Whitespace == {" ", "\t", "\n", "\r"}    \* \s, and what trim() removes
Newline == {"\n"}

RECURSIVE SeqsUpTo(_)
SeqsUpTo(n) ==
  IF n = 0 THEN {<<>>}
  ELSE LET S == SeqsUpTo(n - 1) IN
       S \cup {Append(t, ch) : t \in {x \in S : Len(x) = n - 1}, ch \in Chars}

Texts == SeqsUpTo(MaxText)

\* The end of the longest run of characters of (or, with inside = FALSE,
\* outside) the class S that starts at position p; p - 1 when it is empty.
RunEnd(s, p, S, inside) ==
  CHOOSE e \in (p - 1)..Len(s) :
    /\ \A i \in p..e : (s[i] \in S) = inside
    /\ e = Len(s) \/ (s[e + 1] \in S) # inside

\* text.match(/[^.!?\n]+[.!?\n]*|[\n]+/g): the matches from position p on. A
\* character that starts neither alternative is skipped.
RECURSIVE matchParts(_, _)
matchParts(text, p) ==
  IF p > Len(text) THEN <<>>
  ELSE IF text[p] \notin Terminators
  THEN LET e == RunEnd(text, RunEnd(text, p, Terminators, FALSE) + 1, Terminators, TRUE)
       IN <<SubSeq(text, p, e)>> \o matchParts(text, e + 1)
  ELSE IF text[p] \in Newline
  THEN LET e == RunEnd(text, p, Newline, TRUE)
       IN <<SubSeq(text, p, e)>> \o matchParts(text, e + 1)
  ELSE matchParts(text, p + 1)

\* String.prototype.trim
trim(s) ==
  LET keep == {i \in 1..Len(s) : s[i] \notin Whitespace} IN
  IF keep = {} THEN <<>>
  ELSE SubSeq(s, CHOOSE i \in keep : \A j \in keep : i <= j,
                 CHOOSE i \in keep : \A j \in keep : i >= j)

\* s.split(/\s+/) from position p on: the pieces between the runs of
\* whitespace, an empty piece before a leading and after a trailing run.
RECURSIVE splitWhitespace(_, _)
splitWhitespace(s, p) ==
  LET e == RunEnd(s, p, Whitespace, FALSE) IN
  IF e = Len(s) THEN <<SubSeq(s, p, e)>>
  ELSE <<SubSeq(s, p, e)>> \o splitWhitespace(s, RunEnd(s, e + 1, Whitespace, TRUE) + 1)

\* The loop over words, from word i on with the chunk `current` being built.
RECURSIVE packWords(_, _, _, _)
packWords(words, i, current, maxLength) ==
  IF i > Len(words)
  THEN IF current # <<>> THEN <<current>> ELSE <<>>
  ELSE LET word == words[i] IN
       IF word = <<>> THEN packWords(words, i + 1, current, maxLength)
       ELSE IF current = <<>> THEN packWords(words, i + 1, word, maxLength)
       ELSE IF Len(current) + Len(word) + 1 <= maxLength
       THEN packWords(words, i + 1, current \o <<" ">> \o word, maxLength)
       ELSE <<current>> \o packWords(words, i + 1, word, maxLength)

\* A loop body that pushes every non-empty trimmed part whole.
chunksOfPartWhole(part, maxLength) ==
  IF trim(part) = <<>> THEN <<>> ELSE <<trim(part)>>

\* The body of the loop over parts: the chunks one part adds.
chunksOfPart(part, maxLength) ==
  LET trimmed == trim(part) IN
  IF trimmed = <<>> THEN <<>>
  ELSE IF Len(trimmed) <= maxLength THEN <<trimmed>>
  ELSE packWords(splitWhitespace(trimmed, 1), 1, <<>>, maxLength)

RECURSIVE chunksOfParts(_, _, _)
chunksOfParts(parts, k, maxLength) ==
  IF k > Len(parts) THEN <<>>
  ELSE chunksOfPart(parts[k], maxLength) \o chunksOfParts(parts, k + 1, maxLength)

splitTextIntoChunks(text, maxLength) ==
  LET matched == matchParts(text, 1)
      parts == IF matched = <<>> THEN <<text>> ELSE matched
  IN chunksOfParts(parts, 1, maxLength)

\* A call splitTextIntoChunks(txt.text, txt.max) returns.
SplitText ==
  /\ txt.pc = "in"
  /\ txt' = [txt EXCEPT !.pc = "out", !.chunks = splitTextIntoChunks(txt.text, txt.max)]
  /\ UNCHANGED <<pools, npools, disk, orchNoTxt, shell, merge, reader>>

InitText ==
  /\ npools = 0
  /\ pools = [p \in Pools |-> Unborn]
  /\ disk = {}
  /\ InitBase(0, TRUE)
  /\ \E text \in Texts, maxLength \in 0..MaxLength :
       txt = [pc |-> "in", text |-> text, max |-> maxLength, chunks |-> <<>>]
  /\ shell = NoShell
  /\ merge = NoMerge
  /\ reader = NoReader

NextText == SplitText

SpecText == InitText /\ [][NextText]_vars

\* C20: splitTextIntoChunks returns no empty chunk, and a chunk longer than
\* the maximum length contains no whitespace (it is one word, emitted whole).
C20_ChunksNonEmptyAndBounded ==
  txt.pc = "out" =>
    \A k \in 1..Len(txt.chunks) :
      /\ txt.chunks[k] # <<>>
      /\ Len(txt.chunks[k]) > txt.max =>
           \A i \in 1..Len(txt.chunks[k]) : txt.chunks[k][i] \notin Whitespace

\* A part longer than the maximum was split by words, one of them too long.
C20_Witness ==
  /\ txt.pc = "out"
  /\ txt.max > 0
  /\ \A i \in 1..Len(txt.text) : txt.text[i] \notin Terminators
  /\ Len(txt.chunks) >= 2
  /\ \E k \in 1..Len(txt.chunks) : Len(txt.chunks[k]) > txt.max

\* The characters of s that are not whitespace, in order.
NonWhitespace(s) == SelectSeq(s, LAMBDA ch : ch \notin Whitespace)

\* chunks.join(" ")
RECURSIVE joinChunks(_, _)
joinChunks(chunks, k) ==
  IF k > Len(chunks) THEN <<>>
  ELSE IF k = Len(chunks) THEN chunks[k]
  ELSE chunks[k] \o <<" ">> \o joinChunks(chunks, k + 1)

\* C21: the chunks joined in order hold exactly the non-whitespace
\* characters of the input text, in the input's order.
C21_ChunksReconstructText ==
  txt.pc = "out" =>
    NonWhitespace(joinChunks(txt.chunks, 1)) = NonWhitespace(txt.text)

\* ------------------------------------------------- text.ts, "/tts" commands
MaxCommand == 6
CommandChars == {"/", "t", "s", "T", " "}

RECURSIVE SeqsOver(_, _)
SeqsOver(S, n) ==
  IF n = 0 THEN {<<>>}
  ELSE LET shorter == SeqsOver(S, n - 1) IN
       shorter \cup {Append(t, ch) : t \in {x \in shorter : Len(x) = n - 1}, ch \in S}

CommandTexts == SeqsOver(CommandChars, MaxCommand)

Prefix == <<"/", "t", "t", "s">>

\* text.startsWith(prefix)
startsWith(text, prefix) ==
  Len(text) >= Len(prefix) /\ SubSeq(text, 1, Len(prefix)) = prefix

\* text.slice(n)
slice(text, n) == SubSeq(text, n + 1, Len(text))

\* String.prototype.toLowerCase on the letters of CommandChars
toLowerCase(text) == [i \in 1..Len(text) |-> IF text[i] = "T" THEN "t" ELSE text[i]]

\* parseTtsCommand that returns the remainder as it is.
parseTtsCommandUntrimmed(text) ==
  IF ~startsWith(trim(text), Prefix) THEN [null |-> TRUE, value |-> <<>>]
  ELSE [null |-> FALSE, value |-> slice(trim(text), 4)]

parseTtsCommand(text) ==
  LET trimmed == trim(text) IN
  IF ~startsWith(trimmed, Prefix) THEN [null |-> TRUE, value |-> <<>>]
  ELSE [null |-> FALSE, value |-> trim(slice(trimmed, 4))]

normalizeCommandArgs(raw) == toLowerCase(trim(raw))

\* parseTtsCommand(txt.text) returns.
ParseTtsCommand ==
  /\ txt.pc = "command"
  /\ txt.parsed = <<>>
  /\ txt' = [txt EXCEPT !.parsed = <<parseTtsCommand(txt.text)>>]
  /\ UNCHANGED <<pools, npools, disk, orchNoTxt, shell, merge, reader>>

\* normalizeCommandArgs returns: called with txt.text first, with its own
\* result after that.
NormalizeCommandArgs ==
  /\ txt.pc = "command"
  /\ Len(txt.normalized) < 2
  /\ txt' = [txt EXCEPT !.normalized = Append(@,
               normalizeCommandArgs(IF @ = <<>> THEN txt.text ELSE @[Len(@)]))]
  /\ UNCHANGED <<pools, npools, disk, orchNoTxt, shell, merge, reader>>

InitCommand ==
  /\ npools = 0
  /\ pools = [p \in Pools |-> Unborn]
  /\ disk = {}
  /\ InitBase(0, TRUE)
  /\ \E text \in CommandTexts :
       txt = [pc |-> "command", text |-> text, parsed |-> <<>>, normalized |-> <<>>]
  /\ shell = NoShell
  /\ merge = NoMerge
  /\ reader = NoReader

NextCommand ==
  \/ ParseTtsCommand
  \/ NormalizeCommandArgs

SpecCommand == InitCommand /\ [][NextCommand]_vars

\* The positions of text that hold no whitespace.
Inked(text) == {i \in 1..Len(text) : text[i] \notin Whitespace}
First(S) == CHOOSE i \in S : \A j \in S : i <= j
Last(S) == CHOOSE i \in S : \A j \in S : i >= j

\* C25: parseTtsCommand returns null unless the first four non-blank
\* characters of the text are "/tts" and follow each other directly, and
\* otherwise what follows them up to the last non-blank character, without
\* the blanks around it; normalizeCommandArgs returns the text between its
\* first and last non-blank character in lower case, and applied to its own
\* result it returns that result.
C25_CommandTextFunctions ==
  txt.pc = "command" =>
    LET text == txt.text
        ink == Inked(text)
        isCommand == /\ ink # {}
                     /\ First(ink) + 3 <= Len(text)
                     /\ \A k \in 1..4 : text[First(ink) + k - 1] = Prefix[k]
        rest == {i \in ink : i > First(ink) + 3}
    IN /\ txt.parsed # <<>> =>
            /\ txt.parsed[1].null = ~isCommand
            /\ isCommand =>
                 txt.parsed[1].value =
                   IF rest = {} THEN <<>> ELSE SubSeq(text, First(rest), Last(rest))
       /\ txt.normalized # <<>> =>
            LET n == txt.normalized[1] IN
            /\ Len(n) = IF ink = {} THEN 0 ELSE Last(ink) - First(ink) + 1
            /\ \A i \in 1..Len(n) :
                 n[i] = (IF text[First(ink) + i - 1] = "T" THEN "t"
                         ELSE text[First(ink) + i - 1])
       /\ Len(txt.normalized) = 2 => txt.normalized[2] = txt.normalized[1]

\* A command with blanks around its argument was parsed, and an argument
\* with a capital letter and blanks was normalized twice.
C25_Witness ==
  /\ txt.pc = "command"
  /\ txt.text = <<" ", "/", "t", "t", "s", " ">> \/ txt.text = <<"/", "t", "t", "s", " ", "T">>
  /\ txt.parsed # <<>> /\ ~txt.parsed[1].null
  /\ Len(txt.normalized) = 2

\* ---------------------------------------------------- config.ts, mergeConfig
\* An object is a function from its own property names to values; an
\* optional property that is not set is outside the domain.
Backends == {"local", "http"}
Voices == {"af_heart", "alloy"}
Speeds == {"1.0", "1.5"}
ProfileNames == {"default", "openai"}
ProfileMaps == {"profiles#1", "profiles#2"}   \* identities of profiles objects

PropertyTypes ==
  [ backend |-> Backends, voice |-> Voices, speed |-> Speeds,
    activeProfile |-> ProfileNames, profiles |-> ProfileMaps,
    speakOn |-> {"message", "idle"} ]

\* The objects with exactly the properties keys, each of its type.
RECURSIVE ObjectsOver(_)
ObjectsOver(keys) ==
  IF keys = {} THEN {<<>>}
  ELSE LET k == CHOOSE x \in keys : TRUE IN
       {(k :> v) @@ o : v \in PropertyTypes[k], o \in ObjectsOver(keys \ {k})}

\* The objects with every required property and any of the optional ones.
Objects(required, optional) ==
  UNION {ObjectsOver(required \cup some) : some \in SUBSET optional}

TtsProfiles == Objects({"backend"}, {"voice", "speed"})

TtsConfigs ==
  Objects({"backend", "activeProfile", "profiles", "speakOn"}, {"voice", "speed"})

\* { ...a, ...b }
spread(a, b) ==
  [k \in DOMAIN a \cup DOMAIN b |-> IF k \in DOMAIN b THEN b[k] ELSE a[k]]

\* A merge that lets the base override the profile.
mergeConfigBaseWins(base, profile, name) ==
  spread(spread(profile, base), [activeProfile |-> name, profiles |-> base.profiles])

mergeConfig(base, profile, name) ==
  spread(spread(base, profile), [activeProfile |-> name, profiles |-> base.profiles])

\* mergeConfig(merge.base, merge.profile, merge.name) returns.
MergeConfig ==
  /\ merge.pc = "in"
  /\ merge' = [merge EXCEPT !.pc = "out",
                            !.result = mergeConfig(merge.base, merge.profile, merge.name)]
  /\ UNCHANGED <<pools, npools, disk, orchNoTxt, txt, shell, reader>>

InitMerge ==
  /\ npools = 0
  /\ pools = [p \in Pools |-> Unborn]
  /\ disk = {}
  /\ InitBase(0, TRUE)
  /\ \E base \in TtsConfigs, profile \in TtsProfiles, name \in ProfileNames :
       merge = [pc |-> "in", base |-> base, given |-> base, profile |-> profile,
                name |-> name, result |-> base]
  /\ txt = NoText
  /\ shell = NoShell
  /\ reader = NoReader

NextMerge == MergeConfig

SpecMerge == InitMerge /\ [][NextMerge]_vars

\* C26: the config mergeConfig returns has the name as activeProfile, the
\* profile's value for every property the profile has, the base's value for
\* every other property, the base's profiles object, and no property beyond
\* those; the base is as it was given.
C26_MergeConfigFrame ==
  merge.pc = "out" =>
    LET r == merge.result IN
    /\ DOMAIN r = DOMAIN merge.base \cup DOMAIN merge.profile
    /\ r.activeProfile = merge.name
    /\ r.profiles = merge.base.profiles
    /\ \A k \in DOMAIN merge.profile : r[k] = merge.profile[k]
    /\ \A k \in DOMAIN merge.base \ (DOMAIN merge.profile \cup {"activeProfile"}) :
         r[k] = merge.base[k]
    /\ merge.base = merge.given

\* A profile that sets a voice other than the base's and no speed was merged
\* under a name other than the base's active profile.
C26_Witness ==
  /\ merge.pc = "out"
  /\ "voice" \in DOMAIN merge.profile /\ "voice" \in DOMAIN merge.base
  /\ merge.profile.voice # merge.base.voice
  /\ merge.profile.backend # merge.base.backend
  /\ "speed" \notin DOMAIN merge.profile /\ "speed" \in DOMAIN merge.base
  /\ merge.name # merge.base.activeProfile

\* ------------------------------------- tts-command.ts, "/tts profile <name>"
\* Backends whose profile needs an httpUrl.
RemoteBackends == {"http", "openedai", "kokoro"}

SwitchTypes ==
  [ backend |-> {"", "local", "http", "kokoro"}, httpUrl |-> {"", "http://b"},
    enabled |-> {TRUE} ]

\* The objects with exactly the properties keys, each drawn from types.
RECURSIVE RecordsOver(_, _)
RecordsOver(types, keys) ==
  IF keys = {} THEN {<<>>}
  ELSE LET k == CHOOSE x \in keys : TRUE IN
       {(k :> v) @@ o : v \in types[k], o \in RecordsOver(types, keys \ {k})}

\* The profiles a tts.jsonc can hold under one name.
FileProfiles == UNION {RecordsOver(SwitchTypes, keys) : keys \in SUBSET DOMAIN SwitchTypes}

\* The names a "/tts profile" command is given: two profiles of the file, a
\* name the file does not have, and a property every object inherits.
SwitchNames == {"default", "other", "nope", "constructor"}

\* profiles[profileName]: an own property, an inherited one (a function
\* object, which is truthy and has no backend), or undefined.
Lookup(profiles, name) ==
  IF name \in DOMAIN profiles THEN [found |-> TRUE, value |-> profiles[name]]
  ELSE IF name = "constructor" THEN [found |-> TRUE, value |-> <<>>]
  ELSE [found |-> FALSE, value |-> <<>>]

\* !object[key] for a string property: undefined and "" are falsy.
Falsy(object, key) == key \notin DOMAIN object \/ object[key] = ""

\* A switch that takes config.enabled from the file and the profile.
assignProfileAndEnabled(cfg, loaded, profile, name) ==
  spread(spread(spread(cfg, loaded), profile), [activeProfile |-> name])

\* Object.assign(config, loaded, profileToApply), then activeProfile and
\* enabled are set.
assignProfile(cfg, loaded, profile, name) ==
  LET wasEnabled == cfg.enabled IN
  spread(spread(spread(cfg, loaded), profile),
         [activeProfile |-> name, enabled |-> wasEnabled])

\* resetHttpCheck / resetKokoroCheck
resetChecks == [b \in {"http", "kokoro"} |-> [checked |-> FALSE, available |-> FALSE]]

\* apply: `await loadConfig()` returns; the profile is looked up and checked,
\* and either a warning is shown and the handler returns, or the checks are
\* reset and the profile is assigned, up to `await loadTtsNotice`.
ProfileLoaded ==
  /\ shell.pc = "loading"
  /\ LET found == Lookup(shell.loaded.profiles, shell.name)
         profile == found.value
     IN IF ~found.found
        THEN shell' = [shell EXCEPT !.pc = "done", !.toast = "not found"]
        ELSE IF Falsy(profile, "backend")
        THEN shell' = [shell EXCEPT !.pc = "done", !.toast = "missing backend"]
        ELSE IF profile.backend \in RemoteBackends /\ Falsy(profile, "httpUrl")
        THEN shell' = [shell EXCEPT !.pc = "done", !.toast = "requires httpUrl"]
        ELSE shell' = [shell EXCEPT
               !.pc = "notice",
               !.checks = resetChecks,
               !.config = assignProfile(shell.config, shell.loaded, profile, shell.name)]
  /\ UNCHANGED <<pools, npools, disk, orchNoTxt, txt, merge, reader>>

\* apply: `await initTts(config)` returns, after the server check of a
\* remote backend has answered; then the success toast is shown.
ProfileInitTts ==
  /\ shell.pc = "notice"
  /\ \E ok \in BOOLEAN :
       shell' = [shell EXCEPT
         !.pc = "done",
         !.toast = "switched",
         !.checks = IF shell.config.backend \in DOMAIN shell.checks
                    THEN [@ EXCEPT ![shell.config.backend] =
                            [checked |-> TRUE, available |-> ok]]
                    ELSE @]
  /\ UNCHANGED <<pools, npools, disk, orchNoTxt, txt, merge, reader>>

\* Another command handler ("/tts on", "/tts off") sets config.enabled while
\* the profile command is at one of its awaits.
ProfileToggle ==
  /\ shell.pc \in {"loading", "notice"}
  /\ shell.toggled < MaxToggles
  /\ shell' = [shell EXCEPT !.config.enabled = ~@, !.toggled = @ + 1]
  /\ UNCHANGED <<pools, npools, disk, orchNoTxt, txt, merge, reader>>

InitProfile ==
  /\ npools = 0
  /\ pools = [p \in Pools |-> Unborn]
  /\ disk = {}
  /\ InitBase(0, TRUE)
  /\ \E name \in SwitchNames, other \in FileProfiles,
        enabled \in BOOLEAN, fileEnabled \in BOOLEAN,
        backend \in {"local", "http"}, checked \in BOOLEAN :
       LET profiles == [n \in {"default", "other"} |->
                          IF n = "default" THEN [backend |-> "local"] ELSE other]
       IN shell = [ pc |-> "loading", name |-> name, toast |-> "none", toggled |-> 0,
                    loaded |-> [backend |-> "local", enabled |-> fileEnabled,
                                activeProfile |-> "default", profiles |-> profiles],
                    config |-> [backend |-> backend, enabled |-> enabled,
                                activeProfile |-> "default", profiles |-> profiles],
                    checks |-> [b \in {"http", "kokoro"} |->
                                  [checked |-> checked /\ b = backend,
                                   available |-> checked /\ b = backend]] ]
  /\ txt = NoText
  /\ merge = NoMerge
  /\ reader = NoReader

NextProfile ==
  \/ ProfileLoaded
  \/ ProfileInitTts
  \/ ProfileToggle

SpecProfile == InitProfile /\ [][NextProfile]_vars

\* C34: when the profile command has loaded the file, a name the file has no
\* profile for, a profile without backend and a remote profile without
\* httpUrl make the handler return; a handler that returns there has changed
\* neither the runtime config nor the cached server checks. A profile with a
\* backend (and an httpUrl if the backend is remote) is switched to, and a
\* switch sets activeProfile to the name and every field of the profile, and
\* leaves config.enabled at the value it had when the switch was made.
C34_ProfileSwitchFrame ==
  [][(shell.pc = "loading" /\ shell'.pc # "loading") =>
       LET profiles == shell.loaded.profiles
           known == shell.name \in DOMAIN profiles
           profile == IF known THEN profiles[shell.name] ELSE <<>>
           has(k) == k \in DOMAIN profile
           invalid == \/ ~known
                      \/ ~has("backend")
                      \/ profile.backend \in RemoteBackends /\ ~has("httpUrl")
           wellFormed == /\ known /\ has("backend") /\ profile.backend # ""
                         /\ profile.backend \in RemoteBackends
                              => has("httpUrl") /\ profile.httpUrl # ""
       IN /\ invalid => shell'.pc = "done"
          /\ wellFormed => shell'.pc = "notice"
          /\ shell'.pc = "done"
               => shell'.config = shell.config /\ shell'.checks = shell.checks
          /\ shell'.pc = "notice"
               => /\ shell'.config.activeProfile = shell.name
                  /\ \A k \in DOMAIN profile \ {"enabled", "activeProfile"} :
                       shell'.config[k] = profile[k]
                  /\ shell'.config.enabled = shell.config.enabled]_vars

\* The command switched to a profile that has an enabled field of its own
\* while TTS was disabled, after another command had changed config.enabled.
C34_Witness ==
  /\ shell.pc = "done" /\ shell.toast = "switched"
  /\ shell.name = "other"
  /\ "enabled" \in DOMAIN shell.loaded.profiles["other"]
  /\ ~shell.config.enabled
  /\ shell.loaded.enabled
  /\ shell.toggled = 1
  /\ shell.config.backend = "http" /\ shell.checks["http"].checked

\* ------------------------------------------------------ pool.ts, startReader
\* The worker writes UTF-8: "a", " " and "\n" are one byte each, "é" is the
\* two bytes C3 A9. A read delivers any non-empty prefix of what is unread.
MaxStream == 4
StreamChars == {"a", " ", "\n", "é"}
Replacement == "?"          \* U+FFFD

RECURSIVE encode(_)
encode(chars) ==
  IF chars = <<>> THEN <<>>
  ELSE (IF Head(chars) = "é" THEN <<"C3", "A9">> ELSE <<Head(chars)>>)
       \o encode(Tail(chars))

Streams == {encode(chars) : chars \in SeqsOver(StreamChars, MaxStream)}

\* new TextDecoder().decode(bytes): a decoder of its own for every call, so
\* a lead byte at the end of the input and a continuation byte without its
\* lead byte each decode to U+FFFD.
RECURSIVE decode(_)
decode(bytes) ==
  IF bytes = <<>> THEN <<>>
  ELSE IF Head(bytes) = "C3"
  THEN IF Len(bytes) >= 2 /\ bytes[2] = "A9"
       THEN <<"é">> \o decode(Tail(Tail(bytes)))
       ELSE <<Replacement>> \o decode(Tail(bytes))
  ELSE IF Head(bytes) = "A9" THEN <<Replacement>> \o decode(Tail(bytes))
  ELSE <<Head(bytes)>> \o decode(Tail(bytes))

\* buffer.split("\n") from position p on
RECURSIVE splitLines(_, _)
splitLines(buffer, p) ==
  LET e == RunEnd(buffer, p, Newline, FALSE) IN
  IF e = Len(buffer) THEN <<SubSeq(buffer, p, e)>>
  ELSE <<SubSeq(buffer, p, e)>> \o splitLines(buffer, e + 2)

\* The lines the loop hands to JSON.parse and handleMessage.
nonBlank(lines) == SelectSeq(lines, LAMBDA line : trim(line) # <<>>)

\* One reader.read() resolves with the next n bytes of the stream: the
\* callback of readLoop up to its next reader.read().
ReadChunk(n) ==
  /\ reader.pc = "run"
  /\ n \in 1..Len(reader.stream)
  /\ LET chunk == decode(SubSeq(reader.stream, 1, n))
         parts == splitLines(reader.buffer \o chunk, 1)
     IN reader' = [reader EXCEPT
          !.stream = SubSeq(@, n + 1, Len(@)),
          !.buffer = parts[Len(parts)],
          !.handled = @ \o nonBlank(SubSeq(parts, 1, Len(parts) - 1))]
  /\ UNCHANGED <<pools, npools, disk, orchNoTxt, txt, shell, merge>>

InitReader ==
  /\ npools = 0
  /\ pools = [p \in Pools |-> Unborn]
  /\ disk = {}
  /\ InitBase(0, TRUE)
  /\ \E stream \in Streams :
       reader = [pc |-> "run", written |-> stream, stream |-> stream,
                 buffer |-> <<>>, handled |-> <<>>]
  /\ txt = NoText
  /\ shell = NoShell
  /\ merge = NoMerge

NextReader == \E n \in 1..(2 * MaxStream) : ReadChunk(n)

SpecReader == InitReader /\ [][NextReader]_vars

\* The characters the worker wrote in the first n bytes of its output, a
\* character counting once its last byte is there.
RECURSIVE WrittenChars(_, _)
WrittenChars(bytes, n) ==
  IF n = 0 \/ bytes = <<>> THEN <<>>
  ELSE IF Head(bytes) = "C3"
  THEN IF n >= 2 THEN <<"é">> \o WrittenChars(Tail(Tail(bytes)), n - 2) ELSE <<>>
  ELSE <<Head(bytes)>> \o WrittenChars(Tail(bytes), n - 1)

\* C29: however the stream is cut into reads, the lines handled so far are
\* the non-blank lines of the output read so far whose newline has been
\* read, each once and in order, and when everything has been read the
\* buffer holds the characters after the last newline.
C29_LinesWhateverTheReads ==
  reader.pc = "run" =>
    LET read == Len(reader.written) - Len(reader.stream)
        lines == splitLines(WrittenChars(reader.written, read), 1)
    IN /\ reader.handled = nonBlank(SubSeq(lines, 1, Len(lines) - 1))
       /\ reader.stream = <<>> => reader.buffer = lines[Len(lines)]

\* ------------------------------------------------- index.ts, event handler
NumSessions == 2
MaxEvents == 3
Sessions == 1..NumSessions
Events == 1..MaxEvents

\* Session 1 is the main session; the others were created with parentID 1.
HasParent(s) == s > 1

\* The assistant message of session s (one per session).
MessageOf(s) == s

IdleHandler == [pc |-> "idle", type |-> "none", session |-> 0, isChild |-> FALSE]

\* resolveSessionInfo and `Boolean(info && info.parentID)` for a response of
\* client.session.get about session s: "info" is the session's record, bare
\* or under `data`; "noinfo" is any other value (not an object, or an object
\* without the session's fields, such as a result that only has `error`).
isChildOf(s, response) == response = "info" /\ HasParent(s)

\* An event reaches the `event` hook: the handler runs up to the await of
\* isChildSession, which answers from its cache or calls client.session.get.
\* A message.updated event is looked at when speakOn is "message", a
\* session.idle event when it is "idle".
EventArrives(h, type, s) ==
  /\ shell.pc = "run"
  /\ shell.handlers[h].pc = "idle"
  /\ \A g \in Events : g < h => shell.handlers[g].pc # "idle"
  /\ shell' = [shell EXCEPT !.handlers[h] =
       IF (type = "message.updated" /\ shell.speakOn # "message")
          \/ (type = "session.idle" /\ shell.speakOn # "idle")
       THEN [pc |-> "done", type |-> type, session |-> s, isChild |-> FALSE]
       ELSE IF shell.cache[s] # "unset"
       THEN [pc |-> "guarded", type |-> type, session |-> s,
             isChild |-> shell.cache[s] = "child"]
       ELSE [pc |-> "get", type |-> type, session |-> s, isChild |-> FALSE]]
  /\ UNCHANGED <<pools, npools, disk, orchNoTxt, txt, merge, reader>>

\* client.session.get settles: it throws (the handler rejects), or the guard
\* caches and returns its verdict.
SessionGetReturns(h, response) ==
  /\ shell.pc = "run"
  /\ shell.handlers[h].pc = "get"
  /\ LET s == shell.handlers[h].session IN
     shell' = IF response = "throws"
              THEN [shell EXCEPT !.handlers[h].pc = "done"]
              ELSE [shell EXCEPT !.handlers[h].pc = "guarded",
                                 !.handlers[h].isChild = isChildOf(s, response),
                                 !.cache[s] = IF isChildOf(s, response)
                                              THEN "child" ELSE "main"]
  /\ UNCHANGED <<pools, npools, disk, orchNoTxt, txt, merge, reader>>

\* The handler after `await isChildSession(...)`, up to its return or its
\* call of speakText (recorded in spoken with the event's session).
HandlerContinues(h) ==
  /\ shell.pc = "run"
  /\ shell.handlers[h].pc = "guarded"
  /\ LET e == shell.handlers[h]
         s1 == [shell EXCEPT !.handlers[h].pc = "done"]
     IN shell' =
          IF e.isChild THEN s1
          ELSE IF e.type = "message.part.updated"
          THEN [s1 EXCEPT !.latestMessageID = MessageOf(e.session)]
          ELSE IF e.type = "message.updated"
          THEN IF shell.latestMessageID = 0
                  \/ shell.latestMessageID # MessageOf(e.session) THEN s1
               ELSE [s1 EXCEPT !.spoken = @ \cup {<<e.session, MessageOf(e.session)>>}]
          ELSE IF shell.latestMessageID = 0 THEN s1
               ELSE [s1 EXCEPT !.spoken = @ \cup {<<e.session, shell.latestMessageID>>}]
  /\ UNCHANGED <<pools, npools, disk, orchNoTxt, txt, merge, reader>>

InitGuard ==
  /\ npools = 0
  /\ pools = [p \in Pools |-> Unborn]
  /\ disk = {}
  /\ InitBase(0, TRUE)
  /\ \E speakOn \in {"message", "idle"} :
       shell = [ pc |-> "run", speakOn |-> speakOn,
                 cache |-> [s \in Sessions |-> "unset"],
                 latestMessageID |-> 0,
                 handlers |-> [h \in Events |-> IdleHandler],
                 spoken |-> {} ]
  /\ txt = NoText
  /\ merge = NoMerge
  /\ reader = NoReader

NextGuard ==
  \/ \E h \in Events, s \in Sessions,
        type \in {"message.part.updated", "message.updated", "session.idle"} :
         EventArrives(h, type, s)
  \/ \E h \in Events, response \in {"info", "noinfo", "throws"} :
         SessionGetReturns(h, response)
  \/ \E h \in Events : HandlerContinues(h)

SpecGuard == InitGuard /\ [][NextGuard]_vars

\* C24: the handler of an event of a child session never changes the tracked
\* latest message and never calls speakText.
C24_ChildSessionNeverSpeaks ==
  [][\A h \in Events :
       (/\ shell'.handlers[h] # shell.handlers[h]
        /\ HasParent(shell'.handlers[h].session))
         => /\ shell'.latestMessageID = shell.latestMessageID
            /\ shell'.spoken = shell.spoken]_vars

C19_SpokenMessageIsNoOp ==
  [][\A u \in Calls :
       (/\ calls[u].pc = "idle" /\ calls'[u].pc # "idle"
        /\ \E v \in Calls : /\ v # u /\ calls[v].via # "none"
                             /\ calls[v].msg = calls'[u].msg)
         => /\ calls'[u].pc = "done" /\ calls'[u].via = "none"
            /\ local' = local /\ audio' = audio /\ lastSpoken' = lastSpoken]_vars

====
